---- MODULE Spec2Model ----
(***************************************************************************)
(* Content validation, quality scoring and fallback synthesis of the       *)
(* social-media content backend (app/services/content_validator.py,        *)
(* app/models/content.py, app/models/platform_rules.py).                   *)
(*                                                                         *)
(* Strings.  The platform limits are large (a Facebook post may hold 63206 *)
(* characters), so a Python str is modelled run-length encoded: a Text is  *)
(* a sequence of atoms [s |-> piece, n |-> repeat], standing for the       *)
(* concatenation of `piece` repeated `repeat` times.  Pieces are " " (a    *)
(* blank), "x" (a lowercase filler letter), "#", and whole words of a      *)
(* small vocabulary; only " " and "x" are ever repeated.  A Text is kept   *)
(* in normal form (no two adjacent atoms with the same repeatable piece,   *)
(* no piece that is the concatenation of other pieces), so two Texts are   *)
(* equal exactly when the Python strings are.  All string operations of    *)
(* the code (len, strip, split, lower, startswith, in, slicing) are        *)
(* defined on this encoding by what they do to the characters.             *)
(*                                                                         *)
(* Floats.  confidence_score is held in hundredths (0.6 is 60); a quality  *)
(* sub-score is held in sixths of a point and the final score in 600ths,   *)
(* which makes every quantity the code computes an exact integer.          *)
(***************************************************************************)
EXTENDS Integers, Sequences, FiniteSets, TLC

VARIABLES
    content,    \* the PlatformContent record under validation
    results,    \* ValidationResult of validate_content per strict_mode, or NoResult
    returned,   \* value returned by the last validate_against_platform_rules call
    fb,         \* the create_fallback_content call in progress
    suggestions, \* value returned by the last suggest_improvements call
    raised,     \* exception the last validate_content call propagated, if any
    calls       \* the validate_content calls running concurrently

vars == <<content, results, returned, fb, suggestions, raised, calls>>

-----------------------------------------------------------------------------
(* Text: run-length encoded Python str                                     *)

\* Python None for an Optional[str] field: a pseudo-text no string equals.
None == <<[s |-> "None", n |-> 0]>>

\* Python None for an Optional[int] rule (no limit configured).
NoneInt == -1

Empty == <<>>

Word(w) == <<[s |-> w, n |-> 1]>>

Run(piece, k) == IF k <= 0 THEN <<>> ELSE <<[s |-> piece, n |-> k]>>

Blank == Run(" ", 1)

\* Pieces that stand for one non-ASCII code point (len() counts them as 1).
EmojiPieces ==
    {"EMOJI_GRIN", "EMOJI_TARGET", "EMOJI_SPARKLES", "EMOJI_STAR", "EMOJI_DIZZY",
     "EMOJI_FIRE", "EMOJI_100", "EMOJI_ROCKET", "EMOJI_HEART", "EMOJI_RAINBOW",
     "EMOJI_UP", "EMOJI_CAMERA", "EMOJI_LAPTOP"}

OneCodePoint == EmojiPieces \cup {"BULLET"}

CharLen(piece) == IF piece \in OneCodePoint THEN 1 ELSE Len(piece)

RECURSIVE StrLen(_)
\* len(text)
StrLen(t) == IF t = <<>> THEN 0 ELSE t[1].n * CharLen(t[1].s) + StrLen(Tail(t))

\* bool(value) for an Optional[str]: None and "" are falsy.
Truthy(t) == t # None /\ StrLen(t) > 0

\* bool(value) for an Optional[int]: None and 0 are falsy.
TruthyInt(m) == m # NoneInt /\ m # 0

\* a or b
OrElse(a, b) == IF Truthy(a) THEN a ELSE b

\* A piece that may be repeated inside one atom (single characters).
Repeatable(piece) == piece \in {" ", "x", ".", "~"}

RECURSIVE Normal(_)
\* Normal form: zero-length atoms dropped, adjacent runs of one repeatable
\* piece merged.
Normal(t) ==
    IF t = <<>> THEN <<>>
    ELSE IF t[1].n = 0 THEN Normal(Tail(t))
    ELSE IF Len(t) >= 2 /\ t[2].n = 0 THEN Normal(<<t[1]>> \o Tail(Tail(t)))
    ELSE IF Len(t) >= 2 /\ t[1].s = t[2].s /\ Repeatable(t[1].s)
         THEN Normal(<<[s |-> t[1].s, n |-> t[1].n + t[2].n]>> \o Tail(Tail(t)))
    ELSE <<t[1]>> \o Normal(Tail(t))

\* a + b
Cat(a, b) == Normal(a \o b)

\* str.lower() of one piece: the vocabulary's capitalised words.
LowerPiece(piece) ==
    CASE piece = "Hi" -> "hi"
      [] piece = "Video" -> "video"
      [] piece = "Content" -> "content"
      [] piece = "Loud" -> "loud"
      [] piece = "FYP" -> "fyp"
      [] piece = "Youtube" -> "youtube"
      [] piece = "Instagram" -> "instagram"
      [] piece = "Facebook" -> "facebook"
      [] piece = "Tiktok" -> "tiktok"
      [] piece = "X_Twitter" -> "x_twitter"
      [] piece = "Linkedin" -> "linkedin"
      [] piece = "Twitch" -> "twitch"
      [] piece = "Post" -> "post"
      [] piece = "Python" -> "python"
      [] piece = "Basics" -> "basics"
      [] OTHER -> piece

\* text.lower()
Lower(t) == [i \in DOMAIN t |-> [s |-> LowerPiece(t[i].s), n |-> t[i].n]]

IsBlank(atom) == atom.s = " "

RECURSIVE LStrip(_)
LStrip(t) == IF t # <<>> /\ IsBlank(t[1]) THEN LStrip(Tail(t)) ELSE t

RECURSIVE RStrip(_)
RStrip(t) ==
    IF t # <<>> /\ IsBlank(t[Len(t)]) THEN RStrip(SubSeq(t, 1, Len(t) - 1)) ELSE t

\* text.strip()
Strip(t) == RStrip(LStrip(t))

RECURSIVE SplitFrom(_, _)
\* The words of t, `cur` being the word under construction.
SplitFrom(t, cur) ==
    IF t = <<>> THEN (IF cur = <<>> THEN <<>> ELSE <<cur>>)
    ELSE IF IsBlank(t[1])
         THEN (IF cur = <<>> THEN <<>> ELSE <<cur>>) \o SplitFrom(Tail(t), <<>>)
    ELSE SplitFrom(Tail(t), cur \o <<t[1]>>)

\* text.split(): the maximal runs of non-blank characters.
Split(t) == SplitFrom(t, <<>>)

RECURSIVE Prefix(_, _)
\* text[:k].  A cut inside a run keeps the run's first characters; a cut
\* inside a word keeps its first characters as opaque letters "~".
Prefix(t, k) ==
    IF t = <<>> \/ k <= 0 THEN <<>>
    ELSE LET w == t[1].n * CharLen(t[1].s)
         IN  IF w <= k THEN <<t[1]>> \o Prefix(Tail(t), k - w)
             ELSE IF Repeatable(t[1].s) THEN <<[s |-> t[1].s, n |-> k]>>
             ELSE <<[s |-> "~", n |-> k]>>

\* Whether atom `a` ends with / starts with / holds the characters of atom `b`.
AtomHolds(a, b) == a.s = b.s /\ (IF Repeatable(b.s) THEN a.n >= b.n ELSE TRUE)

\* needle in text, for a non-empty needle: its first atom closes an atom of
\* the text, its inner atoms are matched exactly and its last atom opens one.
\* (Vocabulary words are never substrings of one another nor of a juxtaposition
\* of pieces, so a word occurs only as a whole piece.)
Contains(t, needle) ==
    LET k == Len(needle)
    IN  \E i \in 1..(Len(t) - k + 1) :
            /\ AtomHolds(t[i], needle[1])
            /\ AtomHolds(t[i + k - 1], needle[k])
            /\ \A j \in 2..(k - 1) : t[i + j - 1] = needle[j]

\* any(needle in text for needle in needles)
ContainsAny(t, needles) == \E needle \in needles : Contains(t, needle)

\* "#word"
Tag(w) == <<[s |-> "#", n |-> 1], [s |-> w, n |-> 1]>>

\* tag.startswith('#')
StartsWithHash(t) == t # <<>> /\ t[1].s = "#"

-----------------------------------------------------------------------------
(* Platform rule registry (models/platform_rules.py)                       *)

Platforms == {"youtube", "instagram", "facebook", "tiktok", "x_twitter", "linkedin", "twitch"}

\* PlatformRules with every Optional limit at its default None.
BaseRules(p, tmax, tmin, tagmax) ==
    [platform |-> p, title_max_length |-> tmax, tag_min_count |-> tmin, tag_max_count |-> tagmax,
     description_max_length |-> NoneInt, caption_max_length |-> NoneInt,
     post_max_length |-> NoneInt, bio_max_length |-> NoneInt,
     username_max_length |-> NoneInt, profile_name_max_length |-> NoneInt,
     comments_max_length |-> NoneInt, headline_max_length |-> NoneInt,
     about_max_length |-> NoneInt, connection_message_max_length |-> NoneInt,
     stream_category_max_length |-> NoneInt,
     title_optimal_length |-> NoneInt, description_optimal_length |-> NoneInt,
     caption_optimal_length |-> NoneInt, post_optimal_length |-> NoneInt]

YouTubeRules ==
    [BaseRules("youtube", 100, 10, 15) EXCEPT
        !.title_optimal_length = 70, !.description_max_length = 5000,
        !.description_optimal_length = 157, !.bio_max_length = 1000,
        !.comments_max_length = 10000]

InstagramRules ==
    [BaseRules("instagram", 150, 20, 30) EXCEPT
        !.caption_max_length = 2200, !.caption_optimal_length = 125,
        !.bio_max_length = 150, !.username_max_length = 30,
        !.profile_name_max_length = 30, !.comments_max_length = 2200]

FacebookRules ==
    [BaseRules("facebook", 255, 3, 5) EXCEPT
        !.post_max_length = 63206, !.post_optimal_length = 80,
        !.bio_max_length = 255, !.headline_max_length = 40]

TikTokRules ==
    [BaseRules("tiktok", 150, 3, 5) EXCEPT
        !.caption_max_length = 2200, !.bio_max_length = 80,
        !.username_max_length = 24, !.comments_max_length = 150]

XTwitterRules ==
    [BaseRules("x_twitter", 280, 2, 3) EXCEPT
        !.post_max_length = 280, !.post_optimal_length = 100,
        !.bio_max_length = 160, !.username_max_length = 15,
        !.profile_name_max_length = 50]

LinkedInRules ==
    [BaseRules("linkedin", 210, 3, 5) EXCEPT
        !.post_max_length = 3000, !.post_optimal_length = 200,
        !.headline_max_length = 220, !.about_max_length = 2600,
        !.comments_max_length = 1250, !.connection_message_max_length = 300]

TwitchRules ==
    [BaseRules("twitch", 140, 3, 8) EXCEPT
        !.bio_max_length = 300, !.stream_category_max_length = 50]

PLATFORM_RULES ==
    [p \in Platforms |->
        CASE p = "youtube" -> YouTubeRules
          [] p = "instagram" -> InstagramRules
          [] p = "facebook" -> FacebookRules
          [] p = "tiktok" -> TikTokRules
          [] p = "x_twitter" -> XTwitterRules
          [] p = "linkedin" -> LinkedInRules
          [] p = "twitch" -> TwitchRules]

\* The exception a dict subscript raises for a key the dict does not hold.
KeyError == [raised |-> "KeyError"]

\* Whether the outcome of a call is an exception rather than a value.
Raised(outcome) == DOMAIN outcome = {"raised"}

\* A faulty lookup: the first rule set of the registry for every platform.
get_platform_rules_first(p) == YouTubeRules

\* A faulty lookup: PLATFORM_RULES.get(platform, <the first rule set>).
get_platform_rules_defaulting(p) ==
    IF p \in DOMAIN PLATFORM_RULES THEN PLATFORM_RULES[p] ELSE YouTubeRules

\* PLATFORM_RULES[platform]
get_platform_rules(p) == IF p \in DOMAIN PLATFORM_RULES THEN PLATFORM_RULES[p] ELSE KeyError

-----------------------------------------------------------------------------
(* Content record (models/content.py)                                      *)

\* The ten optional text fields of PlatformContent, in declaration order.
OptionalFields ==
    <<"description", "caption", "post_body", "bio", "username", "profile_name",
      "headline", "about_section", "connection_message", "stream_category">>

\* PlatformContent(platform=, title=, tags=, confidence_score=): every other
\* field at its declared default.
PlatformContent(p, title, tags, conf) ==
    [platform |-> p, title |-> title, tags |-> tags, confidence_score |-> conf,
     meets_requirements |-> FALSE, validation_notes |-> <<>>,
     description |-> None, caption |-> None, post_body |-> None, bio |-> None,
     username |-> None, profile_name |-> None, headline |-> None,
     about_section |-> None, connection_message |-> None, stream_category |-> None]

character_count(c) == StrLen(c.title)

tag_count(c) == Len(c.tags)

RECURSIVE TagChars(_)
\* sum(len(tag) + 1 for tag in tags)
TagChars(tags) == IF tags = <<>> THEN 0 ELSE StrLen(tags[1]) + 1 + TagChars(Tail(tags))

\* A faulty total: the title is counted although a post body is set.
TotalChars_title_only(c) == StrLen(c.title) + TagChars(c.tags)

\* len(post_body or title) + sum(len(tag) + 1 for tag in tags)
TotalChars(c) == StrLen(OrElse(c.post_body, c.title)) + TagChars(c.tags)

-----------------------------------------------------------------------------
(* PlatformContent.validate_against_platform_rules (the quick check)       *)

\* One "if self.f and rules.f_max: if len(self.f) > rules.f_max:" block:
\* whether it fails and the note it appends.
QuickField(value, max, label) ==
    IF Truthy(value) /\ TruthyInt(max) /\ StrLen(value) > max
    THEN [fail |-> TRUE,
          notes |-> <<label \o " exceeds maximum length (" \o ToString(StrLen(value))
                      \o "/" \o ToString(max) \o ")">>]
    ELSE [fail |-> FALSE, notes |-> <<>>]

\* A faulty title check: a title of exactly the limit fails.
QuickTitle_inclusive(c, rules) ==
    IF character_count(c) >= rules.title_max_length
    THEN [fail |-> TRUE,
          notes |-> <<"Title exceeds maximum length (" \o ToString(character_count(c))
                      \o "/" \o ToString(rules.title_max_length) \o ")">>]
    ELSE [fail |-> FALSE, notes |-> <<>>]

QuickTitle(c, rules) ==
    IF character_count(c) > rules.title_max_length
    THEN [fail |-> TRUE,
          notes |-> <<"Title exceeds maximum length (" \o ToString(character_count(c))
                      \o "/" \o ToString(rules.title_max_length) \o ")">>]
    ELSE [fail |-> FALSE, notes |-> <<>>]

\* A faulty quick check: a record with exactly tag_max_count tags fails.
QuickTagCount_below_max(c, rules) ==
    IF tag_count(c) < rules.tag_min_count \/ tag_count(c) >= rules.tag_max_count
    THEN [fail |-> TRUE, notes |-> <<"Too many tags">>]
    ELSE [fail |-> FALSE, notes |-> <<>>]

QuickTagCount(c, rules) ==
    IF tag_count(c) < rules.tag_min_count
    THEN [fail |-> TRUE,
          notes |-> <<"Too few tags (" \o ToString(tag_count(c)) \o "/"
                      \o ToString(rules.tag_min_count) \o " minimum)">>]
    ELSE IF tag_count(c) > rules.tag_max_count
    THEN [fail |-> TRUE,
          notes |-> <<"Too many tags (" \o ToString(tag_count(c)) \o "/"
                      \o ToString(rules.tag_max_count) \o " maximum)">>]
    ELSE [fail |-> FALSE, notes |-> <<>>]

QuickTotal(c, rules) ==
    IF c.platform = "x_twitter" /\ TotalChars(c) > rules.post_max_length
    THEN [fail |-> TRUE,
          notes |-> <<"Total content exceeds character limit (" \o ToString(TotalChars(c))
                      \o "/" \o ToString(rules.post_max_length) \o ")">>]
    ELSE [fail |-> FALSE, notes |-> <<>>]

\* The checks of the method in source order.
QuickChecks(c, rules) ==
    << QuickTitle(c, rules),
       QuickField(c.description, rules.description_max_length, "Description"),
       QuickField(c.caption, rules.caption_max_length, "Caption"),
       QuickField(c.post_body, rules.post_max_length, "Post body"),
       QuickField(c.bio, rules.bio_max_length, "Bio"),
       QuickField(c.username, rules.username_max_length, "Username"),
       QuickField(c.profile_name, rules.profile_name_max_length, "Profile name"),
       QuickField(c.headline, rules.headline_max_length, "Headline"),
       QuickField(c.about_section, rules.about_max_length, "About section"),
       QuickField(c.connection_message, rules.connection_message_max_length,
                  "Connection message"),
       QuickTagCount(c, rules),
       QuickTotal(c, rules) >>

RECURSIVE QuickNotes(_)
QuickNotes(checks) ==
    IF checks = <<>> THEN <<>> ELSE checks[1].notes \o QuickNotes(Tail(checks))

\* The local meets_requirements: starts True, set False by every failing check.
QuickMeets(checks) == \A i \in 1..Len(checks) : ~checks[i].fail

\* A faulty quick check: the notes are appended to those the record held.
validate_against_platform_rules_appending(c, rules) ==
    LET checks == QuickChecks(c, rules)
    IN  [self |-> [c EXCEPT !.meets_requirements = QuickMeets(checks),
                            !.validation_notes = c.validation_notes \o QuickNotes(checks)],
         ret |-> QuickMeets(checks)]

\* The method's effect: self with the two fields it assigns (overwriting
\* what they held), and the value it returns.
validate_against_platform_rules(c, rules) ==
    LET checks == QuickChecks(c, rules)
    IN  [self |-> [c EXCEPT !.meets_requirements = QuickMeets(checks),
                            !.validation_notes = QuickNotes(checks)],
         ret |-> QuickMeets(checks)]

-----------------------------------------------------------------------------
(* ContentValidator: issues                                                *)

ERROR == "error"
WARNING == "warning"
INFO == "info"

ValidationIssue(field, severity, message, suggestion) ==
    [field |-> field, severity |-> severity, message |-> message, suggestion |-> suggestion]

\* One "if content.f and rules.f_max: if len(content.f) > rules.f_max:" block.
FieldLimitIssue(value, max, field, label, lower) ==
    IF Truthy(value) /\ TruthyInt(max) /\ StrLen(value) > max
    THEN <<ValidationIssue(field, ERROR, label \o " exceeds maximum length",
              "Reduce " \o lower \o " to " \o ToString(max) \o " characters or less")>>
    ELSE <<>>

\* A title block that warns from 90% of the limit on (count >= max * 0.9).
TitleLimitIssue_from_90(c, rules) ==
    IF character_count(c) > rules.title_max_length
    THEN <<ValidationIssue("title", ERROR, "Title exceeds maximum length",
              "Reduce title to " \o ToString(rules.title_max_length) \o " characters or less")>>
    ELSE IF character_count(c) * 10 >= rules.title_max_length * 9
    THEN <<ValidationIssue("title", WARNING, "Title is very close to character limit",
              "Consider shortening for better display")>>
    ELSE <<>>

\* Title block: over the limit is an ERROR, else over 90% of it a WARNING
\* (count > max * 0.9, compared in tenths).
TitleLimitIssue(c, rules) ==
    IF character_count(c) > rules.title_max_length
    THEN <<ValidationIssue("title", ERROR, "Title exceeds maximum length",
              "Reduce title to " \o ToString(rules.title_max_length) \o " characters or less")>>
    ELSE IF character_count(c) * 10 > rules.title_max_length * 9
    THEN <<ValidationIssue("title", WARNING, "Title is very close to character limit",
              "Consider shortening for better display")>>
    ELSE <<>>

\* X/Twitter block: post (or title) plus hashtags against post_max_length.
TotalContentIssue(c, rules) ==
    IF c.platform = "x_twitter" /\ TotalChars(c) > rules.post_max_length
    THEN <<ValidationIssue("total_content", ERROR,
              "Total content (post + hashtags) exceeds character limit",
              "Reduce post length or number of hashtags")>>
    ELSE <<>>

_validate_character_limits(c, rules) ==
    TitleLimitIssue(c, rules)
    \o FieldLimitIssue(c.description, rules.description_max_length, "description",
                       "Description", "description")
    \o FieldLimitIssue(c.caption, rules.caption_max_length, "caption", "Caption", "caption")
    \o FieldLimitIssue(c.post_body, rules.post_max_length, "post_body", "Post body", "post body")
    \o FieldLimitIssue(c.bio, rules.bio_max_length, "bio", "Bio", "bio")
    \o FieldLimitIssue(c.username, rules.username_max_length, "username", "Username", "username")
    \o FieldLimitIssue(c.profile_name, rules.profile_name_max_length, "profile_name",
                       "Profile name", "profile name")
    \o FieldLimitIssue(c.headline, rules.headline_max_length, "headline", "Headline", "headline")
    \o FieldLimitIssue(c.about_section, rules.about_max_length, "about_section",
                       "About section", "about section")
    \o FieldLimitIssue(c.connection_message, rules.connection_message_max_length,
                       "connection_message", "Connection message", "connection message")
    \o TotalContentIssue(c, rules)

\* A faulty tag-count stage: a list of exactly the minimum is too short.
_validate_tag_count_inclusive(c, rules) ==
    IF tag_count(c) <= rules.tag_min_count
    THEN <<ValidationIssue("tags", ERROR, "Too few tags",
              "Add " \o ToString(rules.tag_min_count - tag_count(c)) \o " more relevant tags")>>
    ELSE IF tag_count(c) > rules.tag_max_count
    THEN <<ValidationIssue("tags", ERROR, "Too many tags",
              "Remove " \o ToString(tag_count(c) - rules.tag_max_count) \o " tags")>>
    ELSE <<>>

_validate_tag_count(c, rules) ==
    IF tag_count(c) < rules.tag_min_count
    THEN <<ValidationIssue("tags", ERROR, "Too few tags",
              "Add " \o ToString(rules.tag_min_count - tag_count(c)) \o " more relevant tags")>>
    ELSE IF tag_count(c) > rules.tag_max_count
    THEN <<ValidationIssue("tags", ERROR, "Too many tags",
              "Remove " \o ToString(tag_count(c) - rules.tag_max_count) \o " tags")>>
    ELSE <<>>

\* Abs of an integer.
Abs(i) == IF i < 0 THEN -i ELSE i

\* set(tag.lower() for tag in tags)
LowerTagSet(tags) == {Lower(tags[i]) : i \in DOMAIN tags}

\* A faulty filter: a tag with a single character after the '#' is caught too.
MalformedTags_one_after(tags) ==
    SelectSeq(tags, LAMBDA tag : ~StartsWithHash(tag) \/ StrLen(tag) <= 2)

\* [tag for tag in tags if not tag.startswith('#') or len(tag) <= 1]
MalformedTags(tags) ==
    SelectSeq(tags, LAMBDA tag : ~StartsWithHash(tag) \/ StrLen(tag) <= 1)

_validate_content_quality(c, rules) ==
    (IF StrLen(Strip(c.title)) < 10
     THEN <<ValidationIssue("title", ERROR, "Title too short to be engaging",
               "Create a more descriptive, engaging title")>>
     ELSE <<>>)
    \o (IF Cardinality(LowerTagSet(c.tags)) < Len(c.tags)
        THEN <<ValidationIssue("tags", WARNING, "Duplicate hashtags detected",
                  "Remove duplicate hashtags for better reach")>>
        ELSE <<>>)
    \o (IF MalformedTags(c.tags) # <<>>
        THEN <<ValidationIssue("tags", ERROR, "Malformed hashtags detected",
                  "Ensure all tags start with # and have content")>>
        ELSE <<>>)
    \o (IF c.confidence_score < 60
        THEN <<ValidationIssue("confidence", WARNING, "Low AI confidence in generated content",
                  "Consider regenerating content for better quality")>>
        ELSE <<>>)

OptimalYouTube(c, rules) ==
    (IF TruthyInt(rules.title_optimal_length) /\ character_count(c) > rules.title_optimal_length
     THEN <<ValidationIssue("title", WARNING, "Title may be truncated in YouTube search results",
               "Keep title under " \o ToString(rules.title_optimal_length)
               \o " characters for full visibility")>>
     ELSE <<>>)
    \o (IF /\ Truthy(c.description) /\ TruthyInt(rules.description_optimal_length)
           /\ StrLen(c.description) > rules.description_optimal_length
           /\ ~ContainsAny(Lower(Prefix(c.description, rules.description_optimal_length)),
                           {Word("tutorial"), Word("learn"), Word("guide"), Word("how")})
        THEN <<ValidationIssue("description", INFO,
                  "Important content should be in first 157 characters",
                  "Move key information to the beginning of description")>>
        ELSE <<>>)

OptimalInstagram(c, rules) ==
    IF /\ Truthy(c.caption) /\ TruthyInt(rules.caption_optimal_length)
       /\ StrLen(c.caption) > rules.caption_optimal_length
    THEN <<ValidationIssue("caption", WARNING, "Caption will be truncated with 'more' button",
              "Keep key message in first " \o ToString(rules.caption_optimal_length)
              \o " characters")>>
    ELSE <<>>

OptimalFacebook(c, rules) ==
    IF /\ Truthy(c.post_body) /\ TruthyInt(rules.post_optimal_length)
       /\ StrLen(c.post_body) > rules.post_optimal_length
    THEN <<ValidationIssue("post_body", INFO,
              "Shorter posts get 66% higher engagement on Facebook",
              "Consider shortening to " \o ToString(rules.post_optimal_length)
              \o " characters or less")>>
    ELSE <<>>

OptimalXTwitter(c, rules) ==
    IF /\ TruthyInt(rules.post_optimal_length)
       /\ StrLen(OrElse(c.post_body, c.title)) > rules.post_optimal_length
    THEN <<ValidationIssue(IF Truthy(c.post_body) THEN "post_body" ELSE "title", INFO,
              "Shorter tweets get 17% higher engagement",
              "Consider shortening to under " \o ToString(rules.post_optimal_length)
              \o " characters")>>
    ELSE <<>>

OptimalLinkedIn(c, rules) ==
    IF /\ Truthy(c.post_body) /\ TruthyInt(rules.post_optimal_length)
       /\ StrLen(c.post_body) > rules.post_optimal_length
    THEN <<ValidationIssue("post_body", WARNING, "Post will be truncated with 'See more' link",
              "Keep key message in first " \o ToString(rules.post_optimal_length)
              \o " characters")>>
    ELSE <<>>

\* A faulty stage: on YouTube its findings are reported as ERRORs.
_validate_optimal_lengths_rejecting(c, rules) ==
    IF c.platform = "youtube"
    THEN [i \in DOMAIN OptimalYouTube(c, rules) |->
             [OptimalYouTube(c, rules)[i] EXCEPT !.severity = ERROR]]
    ELSE <<>>

_validate_optimal_lengths(c, rules) ==
    CASE c.platform = "youtube" -> OptimalYouTube(c, rules)
      [] c.platform = "instagram" -> OptimalInstagram(c, rules)
      [] c.platform = "facebook" -> OptimalFacebook(c, rules)
      [] c.platform = "x_twitter" -> OptimalXTwitter(c, rules)
      [] c.platform = "linkedin" -> OptimalLinkedIn(c, rules)
      [] OTHER -> <<>>

Words(ws) == {Word(w) : w \in ws}

PlatformLinkedIn(c, rules) ==
    LET professional_text ==
            Lower(Cat(Cat(Cat(Cat(c.title, Blank), OrElse(c.post_body, Empty)), Blank),
                      OrElse(c.headline, Empty)))
    IN  (IF ContainsAny(professional_text,
                Words({"hey", "guys", "lol", "omg", "awesome", "epic", "cool", "dude"}))
         THEN <<ValidationIssue("tone", WARNING, "Content may be too casual for LinkedIn",
                   "Use more professional language")>>
         ELSE <<>>)
        \o (IF ~Truthy(c.post_body) \/ StrLen(Strip(c.post_body)) < 50
            THEN <<ValidationIssue("post_body", WARNING, "LinkedIn favors substantial content",
                      "Add more detailed, valuable content for better engagement")>>
            ELSE <<>>)
        \o (IF Truthy(c.headline) /\ ~ContainsAny(c.headline, Words({"|", "BULLET", "-"}))
            THEN <<ValidationIssue("headline", INFO, "Professional headlines often use separators",
                      "Consider using | or BULLET to separate roles/skills")>>
            ELSE <<>>)

TrendingTags == {Tag("fyp"), Tag("viral"), Tag("trending"), Tag("foryou"), Tag("foryoupage")}

PlatformTikTok(c, rules) ==
    (IF ~(\E i \in DOMAIN c.tags : Lower(c.tags[i]) \in {Lower(t) : t \in TrendingTags})
     THEN <<ValidationIssue("tags", INFO, "Consider adding trending TikTok hashtags",
               "Add #fyp, #viral, or #trending for better reach")>>
     ELSE <<>>)
    \o (IF Truthy(c.caption) /\ StrLen(c.caption) > 100
        THEN <<ValidationIssue("caption", INFO, "TikTok favors short, punchy captions",
                  "Keep captions brief and engaging")>>
        ELSE <<>>)

PlatformInstagram(c, rules) ==
    (IF ~ContainsAny(OrElse(c.caption, c.title), Words(EmojiPieces))
     THEN <<ValidationIssue("visual_appeal", INFO,
               "Consider adding emojis for better visual appeal",
               "Add relevant emojis to increase engagement")>>
     ELSE <<>>)
    \o (IF Len(c.tags) < 10
        THEN <<ValidationIssue("tags", INFO, "Instagram posts perform better with 10+ hashtags",
                  "Add more relevant hashtags for better reach")>>
        ELSE <<>>)

PlatformYouTube(c, rules) ==
    (IF Truthy(c.description) /\ StrLen(c.description) < 100
     THEN <<ValidationIssue("description", WARNING,
               "YouTube descriptions should be detailed for SEO",
               "Add more detailed description for better discoverability")>>
     ELSE <<>>)
    \o (IF /\ Truthy(c.title)
           /\ ~ContainsAny(Lower(c.title),
                  Words({"tutorial", "guide", "learn", "tips"})
                  \cup {Word("how") \o Blank \o Word("to")})
        THEN <<ValidationIssue("title", INFO,
                  "Consider adding educational keywords for YouTube SEO",
                  "Include words like 'tutorial', 'guide', or 'how to'")>>
        ELSE <<>>)

PlatformFacebook(c, rules) ==
    IF /\ Truthy(c.post_body)
       /\ ~ContainsAny(Lower(c.post_body),
              Words({"what", "how", "why", "thoughts", "opinion", "?"}))
    THEN <<ValidationIssue("post_body", INFO, "Facebook favors posts that encourage interaction",
              "Consider adding a question or call for opinions")>>
    ELSE <<>>

PlatformXTwitter(c, rules) ==
    IF ~ContainsAny(Lower(OrElse(c.post_body, c.title)),
           Words({"thread", "breaking", "just", "new"}))
    THEN <<ValidationIssue("timing", INFO, "Twitter favors timely, immediate content",
              "Consider adding urgency or timeliness indicators")>>
    ELSE <<>>

PlatformTwitch(c, rules) ==
    IF /\ Truthy(c.stream_category)
       /\ ~ContainsAny(Lower(c.title),
              {Split(Lower(c.stream_category))[i] :
                  i \in DOMAIN Split(Lower(c.stream_category))})
    THEN <<ValidationIssue("title", WARNING, "Stream title should relate to the category",
              "Include category-related keywords in title")>>
    ELSE <<>>

_validate_platform_specific(c, rules) ==
    CASE c.platform = "linkedin" -> PlatformLinkedIn(c, rules)
      [] c.platform = "tiktok" -> PlatformTikTok(c, rules)
      [] c.platform = "instagram" -> PlatformInstagram(c, rules)
      [] c.platform = "youtube" -> PlatformYouTube(c, rules)
      [] c.platform = "facebook" -> PlatformFacebook(c, rules)
      [] c.platform = "x_twitter" -> PlatformXTwitter(c, rules)
      [] c.platform = "twitch" -> PlatformTwitch(c, rules)
      [] OTHER -> <<>>

-----------------------------------------------------------------------------
(* ContentValidator._calculate_quality_score                               *)

\* ContentValidator.quality_weights, in hundredths.
quality_weights ==
    [character_limits |-> 25, tag_optimization |-> 20, content_completeness |-> 20,
     platform_optimization |-> 15, engagement_potential |-> 10, optimal_lengths |-> 10]

Dimensions == DOMAIN quality_weights

\* Points deducted per issue, in sixths of a point (30, 15 and 8 points).
Deduction(issue) ==
    CASE issue.severity = ERROR -> 30 * 6
      [] issue.severity = WARNING -> 15 * 6
      [] issue.severity = INFO -> 8 * 6
      [] OTHER -> 0

TextFieldNames ==
    {"title", "description", "caption", "post_body", "bio", "username", "profile_name",
     "headline", "about_section", "connection_message"}

\* The validator's messages whose lowercase text holds "character" or "length".
CharacterOrLengthMessages ==
    {"Title exceeds maximum length", "Title is very close to character limit",
     "Description exceeds maximum length", "Caption exceeds maximum length",
     "Post body exceeds maximum length", "Bio exceeds maximum length",
     "Username exceeds maximum length", "Profile name exceeds maximum length",
     "Headline exceeds maximum length", "About section exceeds maximum length",
     "Connection message exceeds maximum length",
     "Total content (post + hashtags) exceeds character limit",
     "Important content should be in first 157 characters"}

\* The validator's messages whose lowercase text holds "optimal" or "truncat".
OptimalOrTruncatMessages ==
    {"Title may be truncated in YouTube search results",
     "Caption will be truncated with 'more' button",
     "Post will be truncated with 'See more' link"}

\* The sub-score an issue is deducted from.
Dimension(issue) ==
    IF issue.field \in TextFieldNames
    THEN IF issue.message \in CharacterOrLengthMessages THEN "character_limits"
         ELSE IF issue.message \in OptimalOrTruncatMessages THEN "optimal_lengths"
         ELSE "platform_optimization"
    ELSE IF issue.field = "tags" THEN "tag_optimization"
    ELSE IF issue.field \in {"tone", "visual_appeal", "timing"} THEN "engagement_potential"
    ELSE "platform_optimization"

RECURSIVE Deducted(_, _)
\* Total deduction the issues make from one sub-score, in sixths.
Deducted(issues, dim) ==
    IF issues = <<>> THEN 0
    ELSE (IF Dimension(issues[1]) = dim THEN Deduction(issues[1]) ELSE 0)
         + Deducted(Tail(issues), dim)

\* A faulty table: base_fields for every platform.
_get_relevant_fields_base_only(p) == <<"title", "tags">>

_get_relevant_fields_for_platform(p) ==
    CASE p = "youtube" -> <<"title", "tags", "description">>
      [] p = "instagram" -> <<"title", "tags", "caption">>
      [] p = "facebook" -> <<"title", "tags", "post_body">>
      [] p = "tiktok" -> <<"title", "tags", "caption">>
      [] p = "x_twitter" -> <<"title", "tags", "post_body">>
      [] p = "linkedin" -> <<"title", "tags", "post_body", "headline">>
      [] p = "twitch" -> <<"title", "tags", "stream_category">>
      [] OTHER -> <<"title", "tags">>

\* hasattr(content, field) and getattr(content, field)
Populated(c, field) ==
    IF field = "tags" THEN Len(c.tags) > 0 ELSE Truthy(c[field])

PopulatedCount(c, fields) == Cardinality({i \in DOMAIN fields : Populated(c, fields[i])})

\* A faulty completeness: the share of populated fields, with no base of 50.
Completeness_without_base(c) ==
    LET relevant == _get_relevant_fields_for_platform(c.platform)
    IN  (PopulatedCount(c, relevant) * 100 * 6) \div Len(relevant)

\* 50 + (populated / len(relevant)) * 50, in sixths.
Completeness(c) ==
    LET relevant == _get_relevant_fields_for_platform(c.platform)
    IN  50 * 6 + (PopulatedCount(c, relevant) * 50 * 6) \div Len(relevant)

\* +10 when tag_count is within 2 of min + 0.7 * (max - min), compared in tenths.
TagBonus(c, rules) ==
    LET tag_range == rules.tag_max_count - rules.tag_min_count
    IN  IF /\ tag_range > 0
           /\ Abs(10 * tag_count(c) - (10 * rules.tag_min_count + 7 * tag_range)) <= 20
        THEN 10 * 6 ELSE 0

\* +5 when 0.7 <= character_count / title_max_length <= 0.9.
TitleBonus(c, rules) ==
    IF /\ 7 * rules.title_max_length <= 10 * character_count(c)
       /\ 10 * character_count(c) <= 9 * rules.title_max_length
    THEN 5 * 6 ELSE 0

ConfidenceBonus(c) ==
    IF c.confidence_score >= 90 THEN 15 * 6
    ELSE IF c.confidence_score >= 80 THEN 10 * 6
    ELSE IF c.confidence_score >= 70 THEN 5 * 6
    ELSE 0

PlatformBonus(c) ==
    IF c.platform = "instagram" /\ Len(c.tags) >= 15 THEN 10 * 6
    ELSE IF c.platform = "linkedin" /\ Truthy(c.headline) THEN 10 * 6
    ELSE IF c.platform = "youtube" /\ Truthy(c.description) /\ StrLen(c.description) >= 200
         THEN 10 * 6
    ELSE 0

\* The six sub-scores before clamping, in sixths of a point.
SubScores(c, rules, issues) ==
    [character_limits |-> 100 * 6 - Deducted(issues, "character_limits") + TitleBonus(c, rules),
     tag_optimization |-> 100 * 6 - Deducted(issues, "tag_optimization") + TagBonus(c, rules),
     content_completeness |-> Completeness(c),
     platform_optimization |->
        100 * 6 - Deducted(issues, "platform_optimization") + PlatformBonus(c),
     engagement_potential |->
        100 * 6 - Deducted(issues, "engagement_potential") + ConfidenceBonus(c),
     optimal_lengths |-> 100 * 6 - Deducted(issues, "optimal_lengths")]

\* A faulty clamp: the sub-score is taken as it is.
ClampSub_absent(v) == v

\* max(0.0, min(100.0, v)) for v in sixths of a point.
ClampSub(v) == IF v < 0 THEN 0 ELSE IF v > 100 * 6 THEN 100 * 6 ELSE v

\* max(0.0, min(100.0, v)) for v in 600ths of a point.
ClampFinal(v) == IF v < 0 THEN 0 ELSE IF v > 100 * 600 THEN 100 * 600 ELSE v

RECURSIVE WeightedSum(_, _)
\* sum of clamped sub-score * weight over the dimensions in `dims`, in 600ths.
WeightedSum(scores, dims) ==
    IF dims = {} THEN 0
    ELSE LET d == CHOOSE x \in dims : TRUE
         IN  ClampSub(scores[d]) * quality_weights[d] + WeightedSum(scores, dims \ {d})

\* The weighted sum of the sub-scores as they are before any clamping.
UnclampedScore(c, rules, issues) ==
    LET raw == SubScores(c, rules, issues)
    IN  raw.character_limits * quality_weights.character_limits
        + raw.tag_optimization * quality_weights.tag_optimization
        + raw.content_completeness * quality_weights.content_completeness
        + raw.platform_optimization * quality_weights.platform_optimization
        + raw.engagement_potential * quality_weights.engagement_potential
        + raw.optimal_lengths * quality_weights.optimal_lengths

\* The quality score, in 600ths of a point (60000 is 100.0).
_calculate_quality_score(c, rules, issues) ==
    ClampFinal(WeightedSum(SubScores(c, rules, issues), Dimensions))

-----------------------------------------------------------------------------
(* ContentValidator.validate_content                                       *)

\* len([issue for issue in issues if issue.severity == ERROR])
ErrorCount(issues) == Len(SelectSeq(issues, LAMBDA issue : issue.severity = ERROR))

\* A faulty verdict: lenient mode tolerates no ERROR either.
Verdict_lenient_zero(error_count, strict_mode) == error_count = 0

\* A faulty verdict: the two modes are swapped.
Verdict_swapped(error_count, strict_mode) ==
    IF strict_mode THEN error_count <= 1 ELSE error_count = 0

Verdict(error_count, strict_mode) ==
    IF strict_mode THEN error_count = 0 ELSE error_count <= 1

\* A method that runs the optimal-length stage second.
AllIssues_optimal_second(c, rules) ==
    _validate_character_limits(c, rules)
    \o _validate_optimal_lengths(c, rules)
    \o _validate_tag_count(c, rules)
    \o _validate_content_quality(c, rules)
    \o _validate_platform_specific(c, rules)

\* The stages in the order validate_content runs them.
AllIssues(c, rules) ==
    _validate_character_limits(c, rules)
    \o _validate_tag_count(c, rules)
    \o _validate_content_quality(c, rules)
    \o _validate_optimal_lengths(c, rules)
    \o _validate_platform_specific(c, rules)

\* A faulty guard: the field is used whether or not it is present.
Guard_absent(value) == TRUE

\* `if content.<field>`: the test under which an optional field is used.
Guard(value) == Truthy(value)

\* One partial operation of the method: the line, whether control reaches it,
\* whether it fails there, and the exception it would raise.
Site(line, reached, fails, exception) ==
    [line |-> line, reached |-> reached, fails |-> fails, raised |-> exception]

\* The partial operations on optional values and the divisions, in the order
\* the stages run them: len(), .lower(), .strip() and slicing fail on None,
\* a division fails on a zero divisor.
Sites(c, rules) ==
    LET main_content == OrElse(c.post_body, c.title)
        x == c.platform = "x_twitter"
        relevant_fields == _get_relevant_fields_for_platform(c.platform)
    IN  << Site(132, Guard(c.description) /\ TruthyInt(rules.description_max_length),
                c.description = None, "TypeError"),
           Site(145, Guard(c.caption) /\ TruthyInt(rules.caption_max_length),
                c.caption = None, "TypeError"),
           Site(158, Guard(c.post_body) /\ TruthyInt(rules.post_max_length),
                c.post_body = None, "TypeError"),
           Site(171, Guard(c.bio) /\ TruthyInt(rules.bio_max_length),
                c.bio = None, "TypeError"),
           Site(184, Guard(c.username) /\ TruthyInt(rules.username_max_length),
                c.username = None, "TypeError"),
           Site(197, Guard(c.profile_name) /\ TruthyInt(rules.profile_name_max_length),
                c.profile_name = None, "TypeError"),
           Site(210, Guard(c.headline) /\ TruthyInt(rules.headline_max_length),
                c.headline = None, "TypeError"),
           Site(223, Guard(c.about_section) /\ TruthyInt(rules.about_max_length),
                c.about_section = None, "TypeError"),
           Site(236, Guard(c.connection_message)
                       /\ TruthyInt(rules.connection_message_max_length),
                c.connection_message = None, "TypeError"),
           Site(251, x, main_content = None, "TypeError"),
           Site(284, c.platform = "youtube" /\ Guard(c.description)
                       /\ TruthyInt(rules.description_optimal_length),
                c.description = None, "TypeError"),
           Site(300, c.platform = "instagram" /\ Guard(c.caption)
                       /\ TruthyInt(rules.caption_optimal_length),
                c.caption = None, "TypeError"),
           Site(313, c.platform = "facebook" /\ Guard(c.post_body)
                       /\ TruthyInt(rules.post_optimal_length),
                c.post_body = None, "TypeError"),
           Site(326, x /\ TruthyInt(rules.post_optimal_length),
                main_content = None, "TypeError"),
           Site(339, c.platform = "linkedin" /\ Guard(c.post_body)
                       /\ TruthyInt(rules.post_optimal_length),
                c.post_body = None, "TypeError"),
           Site(453, c.platform = "linkedin" /\ Guard(c.post_body),
                c.post_body = None, "AttributeError"),
           Site(458, c.platform = "linkedin" /\ Guard(c.post_body)
                       /\ StrLen(Strip(c.post_body)) < 50,
                c.post_body = None, "TypeError"),
           Site(464, c.platform = "linkedin" /\ Guard(c.headline),
                c.headline = None, "TypeError"),
           Site(484, c.platform = "tiktok" /\ Guard(c.caption),
                c.caption = None, "TypeError"),
           Site(518, c.platform = "youtube" /\ Guard(c.description),
                c.description = None, "TypeError"),
           Site(540, c.platform = "facebook" /\ Guard(c.post_body),
                c.post_body = None, "AttributeError"),
           Site(552, x, main_content = None, "AttributeError"),
           Site(565, c.platform = "twitch" /\ Guard(c.stream_category),
                c.stream_category = None, "AttributeError"),
           Site(624, Len(relevant_fields) > 0, Len(relevant_fields) = 0,
                "ZeroDivisionError"),
           Site(635, TRUE, rules.title_max_length = 0, "ZeroDivisionError"),
           Site(652, c.platform = "youtube" /\ Guard(c.description),
                c.description = None, "TypeError") >>

\* The exceptions the method would raise, first the one that leaves it.
Exceptions(c, rules) ==
    SelectSeq(Sites(c, rules), LAMBDA site : site.reached /\ site.fails)

\* Lines 91-103: the verdict, the score and the result built from the issues
\* collected; the result references the record it was given.
ResultFrom(c, rules, issues, strict_mode) ==
    [is_valid |-> Verdict(ErrorCount(issues), strict_mode),
     score |-> _calculate_quality_score(c, rules, issues),
     issues |-> issues,
     platform |-> c.platform,
     content |-> c]

\* Lines 70-103: the stages, the verdict, the score and the result.
ValidationResult(c, rules, strict_mode) ==
    ResultFrom(c, rules, AllIssues(c, rules), strict_mode)

\* The result, or the exception of the rule lookup (line 67) or of a stage,
\* which nothing in the method catches.
validate_content(c, strict_mode) ==
    LET rules == get_platform_rules(c.platform)
    IN  IF Raised(rules) THEN rules
        ELSE IF Exceptions(c, rules) # <<>>
        THEN [raised |-> Head(Exceptions(c, rules)).raised]
        ELSE ValidationResult(c, rules, strict_mode)

-----------------------------------------------------------------------------
(* ContentValidator.suggest_improvements                                   *)

\* An issue built without a suggestion (the dataclass default, None).
NoSuggestion == "None"

\* A faulty test: every issue is taken to carry a suggestion.
HasSuggestion_always(issue) == TRUE

\* bool(issue.suggestion): None and "" are falsy.
HasSuggestion(issue) == issue.suggestion # NoSuggestion /\ issue.suggestion # ""

\* issue.field.title(): the first letter of every run of letters in capitals.
FieldTitle(field) ==
    CASE field = "title" -> "Title"
      [] field = "description" -> "Description"
      [] field = "caption" -> "Caption"
      [] field = "post_body" -> "Post_Body"
      [] field = "bio" -> "Bio"
      [] field = "username" -> "Username"
      [] field = "profile_name" -> "Profile_Name"
      [] field = "headline" -> "Headline"
      [] field = "about_section" -> "About_Section"
      [] field = "connection_message" -> "Connection_Message"
      [] field = "total_content" -> "Total_Content"
      [] field = "tags" -> "Tags"
      [] field = "confidence" -> "Confidence"
      [] field = "tone" -> "Tone"
      [] field = "visual_appeal" -> "Visual_Appeal"
      [] field = "timing" -> "Timing"

\* f"{issue.field.title()}: {issue.suggestion}"
SuggestionLine(issue) == FieldTitle(issue.field) \o ": " \o issue.suggestion

RECURSIVE IssueSuggestions(_)
\* The for loop of lines 684-686.
IssueSuggestions(issues) ==
    IF issues = <<>> THEN <<>>
    ELSE (IF HasSuggestion(issues[1]) THEN <<SuggestionLine(issues[1])>> ELSE <<>>)
         \o IssueSuggestions(Tail(issues))

\* validation_result.score < 80, the score being in 600ths.
RegenerateAdvised(validation_result) == validation_result.score < 80 * 600

\* validation_result.content.confidence_score < 0.7
LowConfidence(validation_result) == validation_result.content.confidence_score < 70

suggest_improvements(validation_result) ==
    IssueSuggestions(validation_result.issues)
    \o (IF RegenerateAdvised(validation_result)
        THEN <<"Consider regenerating content for higher quality">> ELSE <<>>)
    \o (IF LowConfidence(validation_result)
        THEN <<"Low AI confidence - try different tone or keywords">> ELSE <<>>)

-----------------------------------------------------------------------------
(* ContentValidator.create_fallback_content                                *)

\* "Video Content"
VideoContent == Word("Video") \o Blank \o Word("Content")

\* The validator's messages whose lowercase text holds "character".
CharacterMessages ==
    {"Title is very close to character limit",
     "Total content (post + hashtags) exceeds character limit",
     "Important content should be in first 157 characters"}

\* [issue for issue in issues if issue.field == "title" and "character" in message]
TitleCharIssues(issues) ==
    SelectSeq(issues,
              LAMBDA issue : issue.field = "title" /\ issue.message \in CharacterMessages)

RECURSIVE TruncateWords(_, _, _)
\* The for loop of _create_fallback_title: words are added, each followed by
\* a blank, while the result stays within max_len.
TruncateWords(words, truncated, max_len) ==
    IF words = <<>> THEN truncated
    ELSE IF StrLen(Cat(Cat(truncated, words[1]), Blank)) <= max_len
         THEN TruncateWords(Tail(words), Cat(Cat(truncated, words[1]), Blank), max_len)
    ELSE truncated

_create_fallback_title(transcript, rules, char_issues) ==
    LET base_title == OrElse(transcript.title, VideoContent)
        max_len == rules.title_max_length - 3
        cut == IF /\ char_issues # <<>> /\ TruthyInt(rules.title_max_length)
                  /\ StrLen(base_title) > max_len
               THEN Cat(Strip(TruncateWords(Split(base_title), Empty, max_len)), Run(".", 3))
               ELSE base_title
    IN  IF TruthyInt(rules.title_max_length)
        THEN Prefix(cut, rules.title_max_length) ELSE cut

common_words ==
    Words({"the", "and", "or", "but", "in", "on", "at", "to", "for", "of", "with", "by"})

\* set(word for word in content.lower().split() if len(word) > 3 and word
\* not in common_words)
KeywordSet(transcript) ==
    LET words == Split(Lower(transcript.content))
    IN  {words[i] : i \in {j \in DOMAIN words :
                              StrLen(words[j]) > 3 /\ words[j] \notin common_words}}

Min(a, b) == IF a <= b THEN a ELSE b

\* list(set(keywords))[:limit]: a set is listed in an order the hash seed
\* of the process decides, so every listing of every choice of `limit`
\* members is possible.
UniqueKeywordLists(keywords, limit) ==
    {order \in [1..Min(limit, Cardinality(keywords)) -> keywords] :
        \A i, j \in DOMAIN order : i # j => order[i] # order[j]}

\* [f"#{keyword}" for keyword in unique_keywords]
HashTags(unique_keywords) ==
    [i \in DOMAIN unique_keywords |-> Cat(Word("#"), unique_keywords[i])]

generic_tags == <<Tag("content"), Tag("video"), Tag("social"), Tag("media"), Tag("digital")>>

InTags(tag, tags) == \E i \in DOMAIN tags : tags[i] = tag

\* One iteration of "for tag in generic_tags": the tag is appended when it
\* is not in the list yet and the list is still below the minimum.
PadWith(tags, tag, rules) ==
    IF ~InTags(tag, tags) /\ Len(tags) < rules.tag_min_count
    THEN Append(tags, tag) ELSE tags

\* tags[:limit]
Take(seq, limit) == SubSeq(seq, 1, Min(limit, Len(seq)))

\* A faulty tier choice: the synthesized record is returned unvalidated.
Tier1Accepted_always(fallback_validation) == TRUE

\* Line 722: the synthesized record is returned when it validated.
Tier1Accepted(fallback_validation) == fallback_validation.is_valid

\* f"#tag{len(minimal_tags)}"
NumberedTag_from_zero(k) == Tag("tag" \o ToString(k - 1))

NumberedTag(k) == Tag("tag" \o ToString(k))

\* The record _create_minimal_content returns once its padding loop ended.
MinimalRecord(platform, rules, minimal_tags) ==
    PlatformContent(platform, Prefix(VideoContent, rules.title_max_length),
                    Take(minimal_tags, rules.tag_max_count), 30)

-----------------------------------------------------------------------------
(* Inputs: the records the validator is run on                             *)

\* How many optional text fields a generated record populates at once.
MaxPopulated == 1

\* "#x", "#xx", ...: well-formed tags, distinct for distinct i.
GoodTag(i) == <<[s |-> "#", n |-> 1], [s |-> "x", n |-> i]>>

GoodTags(k) == [i \in 1..k |-> GoodTag(i)]

\* Titles around the thresholds of a platform whose title_max_length is L:
\* empty, too short (also behind blanks), ordinary, in the 70-90% band,
\* just above 90%, at the limit and one above it.
Titles(L) ==
    { Empty,
      Word("Hi"),
      Run(" ", 10) \o Word("Hi"),
      Word("learn") \o Blank \o Run("x", 7),
      Word("hey") \o Blank \o Word("new") \o Blank \o Run("x", (8 * L) \div 10 - 8),
      Run("x", (9 * L) \div 10 + 1),
      Run("x", L),
      Run("x", L + 1) }

\* Tag lists around the tag range lo..hi: none, one too few, the minimum, near
\* 70% of the range with a trending tag, the maximum, one too many, a
\* case-insensitive duplicate, malformed tags, and one tag of 281 characters.
TagLists(lo, hi) ==
    { <<>>,
      GoodTags(lo - 1),
      GoodTags(lo),
      <<Tag("FYP")>> \o GoodTags(lo + (7 * (hi - lo)) \div 10 - 1),
      GoodTags(hi),
      GoodTags(hi + 1),
      <<Tag("Loud"), Tag("loud")>> \o GoodTags(lo - 2),
      <<Word("#"), Word("loud")>> \o GoodTags(lo - 2),
      <<Word("#") \o Run("x", 280)>> \o GoodTags(lo - 1) }

\* confidence_score values (hundredths) around 0.6, 0.7, 0.8 and 0.9.
Confidences == {30, 59, 60, 70, 80, 90}

\* The rule that limits an optional field, as the validator pairs them; the
\* stream category is paired with the limit the registry configures for it.
ConfiguredMax(rules, field) ==
    CASE field = "description" -> rules.description_max_length
      [] field = "caption" -> rules.caption_max_length
      [] field = "post_body" -> rules.post_max_length
      [] field = "bio" -> rules.bio_max_length
      [] field = "username" -> rules.username_max_length
      [] field = "profile_name" -> rules.profile_name_max_length
      [] field = "headline" -> rules.headline_max_length
      [] field = "about_section" -> rules.about_max_length
      [] field = "connection_message" -> rules.connection_message_max_length
      [] field = "stream_category" -> rules.stream_category_max_length

FieldKinds == {"empty", "short", "at_max", "over_max"}

\* A value for an optional field: empty, a short sentence, exactly at the
\* configured limit and one character above it (300 and 301 characters where
\* the platform configures no limit).
FieldText(rules, field, kind) ==
    LET m == IF TruthyInt(ConfiguredMax(rules, field))
             THEN ConfiguredMax(rules, field) ELSE 300
    IN  CASE kind = "empty" -> Empty
          [] kind = "short" -> Word("learn") \o Blank \o Word("why") \o Blank \o Run("x", 50)
          [] kind = "at_max" -> Run("x", m)
          [] kind = "over_max" -> Run("x", m + 1)

OptionalFieldSet == {OptionalFields[i] : i \in DOMAIN OptionalFields}

\* The record `c` with the optional fields in DOMAIN kinds populated.
WithFields(c, kinds) ==
    [f \in DOMAIN c |->
        IF f \in DOMAIN kinds
        THEN FieldText(get_platform_rules(c.platform), f, kinds[f])
        ELSE c[f]]

\* Records with title, tags and confidence varied and no optional field.
PlainContents ==
    UNION { { PlatformContent(p, title, tags, conf) :
                title \in Titles(get_platform_rules(p).title_max_length),
                tags \in TagLists(get_platform_rules(p).tag_min_count,
                                  get_platform_rules(p).tag_max_count),
                conf \in Confidences } : p \in Platforms }

\* Which optional fields are populated, and how: at most MaxPopulated of them.
FieldChoices ==
    UNION { [F -> FieldKinds] :
              F \in {G \in SUBSET OptionalFieldSet : Cardinality(G) <= MaxPopulated} }

\* An ordinary record (13-character title, the minimum of tags, confidence
\* 0.8) with optional fields populated; meets_requirements and
\* validation_notes either at their defaults or preset at construction.
FieldContents ==
    UNION { { [WithFields(PlatformContent(p, Word("learn") \o Blank \o Run("x", 7),
                                         GoodTags(get_platform_rules(p).tag_min_count), 80),
                          kinds)
                 EXCEPT !.meets_requirements = preset,
                        !.validation_notes = IF preset THEN <<"checked by hand">> ELSE <<>>] :
                kinds \in FieldChoices, preset \in BOOLEAN } : p \in Platforms }

\* Records with everything wrong at once: title and every optional field one
\* character over, one tag too many, low confidence.
SaturatedContents ==
    { WithFields(PlatformContent(p, Run("x", get_platform_rules(p).title_max_length + 1),
                                 GoodTags(get_platform_rules(p).tag_max_count + 1), 30),
                 [f \in OptionalFieldSet |-> "over_max"]) : p \in Platforms }

\* Records whose platform attribute was set to a value outside PlatformType
\* (assignment is not validated): the registry holds no rule set for it.
UnknownContents ==
    { PlatformContent("myspace", title, GoodTags(3), 80) : title \in Titles(100) }

\* Twitch records whose stream_category holds blanks only, a YouTube record
\* with a three-letter title, one tag, confidence 0.3 and no description, and
\* for every platform a title of nine tenths of the limit (rounded down).
EdgeContents ==
    { [PlatformContent("twitch", title, tags, 80) EXCEPT !.stream_category = Run(" ", 3)] :
        title \in Titles(TwitchRules.title_max_length), tags \in {<<>>, GoodTags(3)} }
    \cup { PlatformContent("youtube", Word("Bad"), GoodTags(1), 30) }
    \cup { PlatformContent(p, Run("x", (9 * get_platform_rules(p).title_max_length) \div 10),
                           GoodTags(get_platform_rules(p).tag_min_count), 80) :
              p \in Platforms }

Contents ==
    PlainContents \cup FieldContents \cup SaturatedContents \cup UnknownContents
        \cup EdgeContents

-----------------------------------------------------------------------------
(* The validator as a state machine                                        *)

\* No create_fallback_content call is in progress.
FbIdle == [pc |-> "idle"]

Init ==
    /\ content \in Contents
    /\ results = <<>>
    /\ returned = <<>>
    /\ fb = FbIdle
    /\ suggestions = <<>>
    /\ raised = <<>>
    /\ calls = <<>>

\* validator.validate_content(content, strict_mode): the result is kept per
\* mode; it references the record, which the call leaves as it is.
ValidateContent(strict_mode) ==
    /\ LET outcome == validate_content(content, strict_mode)
       IN  IF Raised(outcome)
           THEN raised' = <<outcome.raised>> /\ UNCHANGED results
           ELSE /\ results' = [m \in DOMAIN results \cup {strict_mode} |->
                                 IF m = strict_mode THEN outcome ELSE results[m]]
                /\ raised' = <<>>
    /\ UNCHANGED <<content, returned, fb, suggestions, calls>>

\* The rule sets passed to the quick check: the record's own and a foreign
\* one (the method takes whatever rule set the caller hands it).
QuickRuleSets(c) == {c.platform, "youtube"} \cap Platforms

\* content.validate_against_platform_rules(get_platform_rules(rp)): assigns
\* the record's two result fields; results referencing the record see them.
ValidateAgainstPlatformRules(rp) ==
    LET r == validate_against_platform_rules(content, get_platform_rules(rp))
    IN  /\ content' = r.self
        /\ returned' = <<[ret |-> r.ret, rules |-> rp]>>
        /\ results' = [m \in DOMAIN results |-> [results[m] EXCEPT !.content = r.self]]
        /\ UNCHANGED <<fb, suggestions, raised, calls>>

Next ==
    \/ \E strict_mode \in BOOLEAN : ValidateContent(strict_mode)
    \/ \E rp \in QuickRuleSets(content) : ValidateAgainstPlatformRules(rp)

Spec == Init /\ [][Next]_vars

-----------------------------------------------------------------------------
(* suggest_improvements as a state machine                                 *)

\* The results a caller passes: the validator's own, or one the caller built
\* from it with the suggestion of every second issue, or of every issue,
\* left out (ValidationResult and ValidationIssue are plain dataclasses).
ResultKinds == {"as_returned", "every_second_bare", "all_bare"}

ResultOfKind(validation_result, kind) ==
    [validation_result EXCEPT !.issues =
        [i \in DOMAIN validation_result.issues |->
            IF kind = "all_bare" \/ (kind = "every_second_bare" /\ i % 2 = 0)
            THEN [validation_result.issues[i] EXCEPT !.suggestion = NoSuggestion]
            ELSE validation_result.issues[i]]]

\* validator.suggest_improvements(result): the returned list is kept with
\* the result it was asked for.
SuggestImprovements(m, kind) ==
    /\ m \in DOMAIN results
    /\ LET validation_result == ResultOfKind(results[m], kind)
       IN  suggestions' = <<[of |-> validation_result,
                             lines |-> suggest_improvements(validation_result)]>>
    /\ UNCHANGED <<content, results, returned, fb, raised, calls>>

\* A record is validated, in either mode, and suggestions are asked for.
SuggestNext ==
    \/ \E strict_mode \in BOOLEAN : ValidateContent(strict_mode)
    \/ \E m \in BOOLEAN, kind \in ResultKinds : SuggestImprovements(m, kind)

SuggestSpec == Init /\ [][SuggestNext]_vars

-----------------------------------------------------------------------------
(* Concurrent calls of validate_content on one validator and one record    *)

\* Calls in flight at once.
MaxCalls == 2

Callers == 1..MaxCalls

\* The stages of lines 73-88 in the order the method runs them.
Stages == <<"character_limits", "tag_count", "content_quality", "optimal_lengths",
            "platform_specific">>

\* issues.extend(self._validate_<stage>(content, rules))
StageIssues(stage, c, rules) ==
    CASE stage = "character_limits" -> _validate_character_limits(c, rules)
      [] stage = "tag_count" -> _validate_tag_count(c, rules)
      [] stage = "content_quality" -> _validate_content_quality(c, rules)
      [] stage = "optimal_lengths" -> _validate_optimal_lengths(c, rules)
      [] stage = "platform_specific" -> _validate_platform_specific(c, rules)

\* A faulty method: the issues are collected in one list of the validator.
Frame_shared(caller) == 1

\* `rules` and `issues` are local variables: one frame per invocation.
Frame(caller) == caller

\* Records for the concurrent calls: everything wrong at once, and the edge
\* records.
ConcContents == SaturatedContents \cup EdgeContents

NoCall == [pc |-> "idle"]

ConcInit ==
    /\ content \in ConcContents
    /\ results = <<>>
    /\ returned = <<>>
    /\ fb = FbIdle
    /\ suggestions = <<>>
    /\ raised = <<>>
    /\ calls = [call |-> [i \in Callers |-> NoCall],
                issues |-> [i \in Callers |-> <<>>]]

\* Lines 64-70: the call is entered, the rule set looked up, issues = [].
\* `overlapped` notes that another call was between its stages at that moment.
CallStart(i, strict_mode) ==
    /\ calls.call[i].pc = "idle"
    /\ calls' = [call |-> [calls.call EXCEPT ![i] =
                              [pc |-> "stage", stage |-> 1, strict_mode |-> strict_mode,
                               rules |-> get_platform_rules(content.platform),
                               overlapped |-> \E j \in Callers :
                                                 calls.call[j].pc \in {"stage", "score"}]],
                 issues |-> [calls.issues EXCEPT ![Frame(i)] = <<>>]]
    /\ UNCHANGED <<content, results, returned, fb, suggestions, raised>>

\* Lines 73-88: the next stage runs and its issues are appended.
CallStage(i) ==
    /\ calls.call[i].pc = "stage"
    /\ LET call == calls.call[i]
           found == StageIssues(Stages[call.stage], content, call.rules)
       IN  calls' = [call |-> [calls.call EXCEPT ![i] =
                                 IF call.stage < Len(Stages)
                                 THEN [call EXCEPT !.stage = call.stage + 1]
                                 ELSE [call EXCEPT !.pc = "score"]],
                    issues |-> [calls.issues EXCEPT ![Frame(i)] = @ \o found]]
    /\ UNCHANGED <<content, results, returned, fb, suggestions, raised>>

\* Lines 91-103: the verdict and the score are computed and the result returned.
CallReturn(i) ==
    /\ calls.call[i].pc = "score"
    /\ LET call == calls.call[i]
       IN  calls' = [calls EXCEPT !.call[i] =
                        [pc |-> "done", strict_mode |-> call.strict_mode,
                         overlapped |-> call.overlapped,
                         result |-> ResultFrom(content, call.rules,
                                               calls.issues[Frame(i)], call.strict_mode)]]
    /\ UNCHANGED <<content, results, returned, fb, suggestions, raised>>

ConcNext ==
    \E i \in Callers :
        \/ \E strict_mode \in BOOLEAN : CallStart(i, strict_mode)
        \/ CallStage(i)
        \/ CallReturn(i)

ConcSpec == ConcInit /\ [][ConcNext]_vars

-----------------------------------------------------------------------------
(* create_fallback_content as a state machine                              *)

\* Most distinct keywords a transcript of the model holds.
MaxKeywords == 4

\* VideoTranscript(content=..., title=...): the content validator stores
\* the stripped text.
VideoTranscript(text, title) == [content |-> Strip(text), title |-> title]

\* The content validator's admission test.
TranscriptAdmitted(text) == StrLen(Strip(text)) >= 10 /\ StrLen(text) <= 50000

RECURSIVE Sentence(_)
\* The words of a sequence, each preceded by a blank.
Sentence(words) ==
    IF words = <<>> THEN Empty ELSE Cat(Cat(Blank, words[1]), Sentence(Tail(words)))

\* The k-th plain keyword: 3 + k letters.
Keyword(k) == Run("x", 3 + k)

\* A stop word and two short words open every transcript text.
Opening == Word("with") \o Blank \o Word("the") \o Blank \o Word("Hi")

\* The text with k distinct plain keywords, the first one said twice.
PlainText(k) ==
    Cat(Opening, Sentence([i \in 1..k |-> Keyword(i)]
                          \o (IF k > 0 THEN <<Keyword(1)>> ELSE <<>>)))

\* Transcript texts: the plain ones, one with a generic tag's word and one
\* word in two spellings, one (with blanks around it) holding a word longer
\* than a whole X/Twitter post, and one with a token of digits and
\* punctuation.
TranscriptTexts ==
    { PlainText(k) : k \in 0..MaxKeywords }
    \cup { Cat(Opening, Sentence(<<Word("video"), Word("Loud"), Word("loud")>>)),
           Cat(Cat(Blank, Opening), Sentence(<<Run("x", 281), Keyword(1), Empty>>)),
           Cat(Opening, Sentence(<<Word("2024!"), Keyword(1), Keyword(2)>>)) }

\* Transcript titles for a platform whose title limit is L: none, a short
\* one, an ordinary one, blanks only, two long words, one over-long word.
TranscriptTitles(L) ==
    { None,
      Word("Hi"),
      Word("learn") \o Blank \o Run("x", 7),
      Run(" ", L),
      Run("x", L - 10) \o Blank \o Run("x", 20),
      Run("x", L + 5) }

\* The records whose strict validation failed or passed before the call:
\* an ordinary title, one close to the limit and one over it.
OriginalTitles(L) ==
    { Word("learn") \o Blank \o Run("x", 7), Run("x", (9 * L) \div 10 + 1), Run("x", L + 1) }

\* The calls the model makes: on X/Twitter, where the title and the tags
\* share one character budget, every title meets every text; elsewhere the
\* titles vary against one text and the texts against no title.
FallbackCalls ==
    UNION { LET rules == get_platform_rules(p)
                L == rules.title_max_length
                inputs == { t \in { text \in TranscriptTexts : TranscriptAdmitted(text) }
                                  \X TranscriptTitles(L) \X OriginalTitles(L) :
                              p = "x_twitter" \/ t[1] = PlainText(2) \/ t[2] = None }
            IN  { [platform |-> p,
                   transcript |-> VideoTranscript(t[1], t[2]),
                   original |-> PlatformContent(p, t[3], GoodTags(rules.tag_min_count), 80)] :
                    t \in inputs }
            : p \in Platforms }

\* The call is made after the original record was validated strictly.
FbInit ==
    /\ \E call \in FallbackCalls :
          /\ content = call.original
          /\ results = (TRUE :> validate_content(call.original, TRUE))
          /\ fb = [pc |-> "call", platform |-> call.platform,
                   transcript |-> call.transcript, title |-> None, tags |-> <<>>,
                   listing |-> <<>>, gi |-> 0, tier |-> 0]
    /\ returned = <<>>
    /\ suggestions = <<>>
    /\ raised = <<>>
    /\ calls = <<>>

\* Lines 700-711 and 754-762: the issues are filtered, the title is made,
\* the keywords are extracted and listed.  A repeated call in the process of
\* the first one lists the set as the first one did (same hash seed, same
\* insertions); in a restarted process any listing is possible again.
FallbackStart ==
    /\ fb.pc = "call"
    /\ LET rules == get_platform_rules(fb.platform)
           char_issues == TitleCharIssues(results[TRUE].issues)
       IN  \E unique_keywords \in
                 UniqueKeywordLists(KeywordSet(fb.transcript), rules.tag_max_count) :
              /\ IF calls = <<>> THEN TRUE
                 ELSE IF calls[1].restarted THEN TRUE
                 ELSE unique_keywords = calls[1].listing
              /\ fb' = [fb EXCEPT !.pc = "while",
                                  !.title = _create_fallback_title(fb.transcript, rules,
                                                                   char_issues),
                                  !.tags = HashTags(unique_keywords),
                                  !.listing = unique_keywords]
    /\ UNCHANGED <<content, results, returned>>
    /\ UNCHANGED <<suggestions, raised, calls>>

\* Line 765: the test of "while len(tags) < rules.tag_min_count".
FallbackWhile ==
    /\ fb.pc = "while"
    /\ fb' = IF Len(fb.tags) < get_platform_rules(fb.platform).tag_min_count
             THEN [fb EXCEPT !.pc = "for", !.gi = 1]
             ELSE [fb EXCEPT !.pc = "built", !.gi = 0]
    /\ UNCHANGED <<content, results, returned>>
    /\ UNCHANGED <<suggestions, raised, calls>>

\* Lines 767-769: one iteration of "for tag in generic_tags"; after the
\* last one the while test is next.
FallbackFor ==
    /\ fb.pc = "for"
    /\ fb' = [fb EXCEPT !.tags = PadWith(fb.tags, generic_tags[fb.gi],
                                         get_platform_rules(fb.platform)),
                        !.gi = IF fb.gi = Len(generic_tags) THEN 0 ELSE fb.gi + 1,
                        !.pc = IF fb.gi = Len(generic_tags) THEN "while" ELSE "for"]
    /\ UNCHANGED <<content, results, returned>>
    /\ UNCHANGED <<suggestions, raised, calls>>

\* Lines 771 and 712-727: the record is built and validated leniently; it
\* is returned when valid, else _create_minimal_content starts.
FallbackBuilt ==
    /\ fb.pc = "built"
    /\ LET rules == get_platform_rules(fb.platform)
           fallback_content == PlatformContent(fb.platform, fb.title,
                                               Take(fb.tags, rules.tag_max_count), 60)
           fallback_validation == validate_content(fallback_content, FALSE)
       IN  IF Tier1Accepted(fallback_validation)
           THEN /\ fb' = [fb EXCEPT !.pc = "done", !.tier = 1]
                /\ content' = fallback_content
           ELSE /\ fb' = [fb EXCEPT !.pc = "minimal", !.tags = <<Tag("content")>>]
                /\ UNCHANGED content
    /\ UNCHANGED <<results, returned>>
    /\ UNCHANGED <<suggestions, raised, calls>>

\* Lines 781-789: the padding loop of _create_minimal_content, one
\* iteration at a time, then its return.
FallbackMinimal ==
    /\ fb.pc = "minimal"
    /\ LET rules == get_platform_rules(fb.platform)
       IN  IF Len(fb.tags) < rules.tag_min_count
           THEN /\ fb' = [fb EXCEPT !.tags = Append(fb.tags, NumberedTag(Len(fb.tags)))]
                /\ UNCHANGED content
           ELSE /\ fb' = [fb EXCEPT !.pc = "done", !.tier = 2]
                /\ content' = MinimalRecord(fb.platform, rules, fb.tags)
    /\ UNCHANGED <<results, returned>>
    /\ UNCHANGED <<suggestions, raised, calls>>

\* The caller validates the returned record leniently.
FallbackChecked ==
    /\ fb.pc = "done"
    /\ fb' = [fb EXCEPT !.pc = "checked"]
    /\ results' = (FALSE :> validate_content(content, FALSE))
    /\ UNCHANGED <<content, returned>>
    /\ UNCHANGED <<suggestions, raised, calls>>

FbNext ==
    \/ FallbackStart
    \/ FallbackWhile
    \/ FallbackFor
    \/ FallbackBuilt
    \/ FallbackMinimal
    \/ FallbackChecked

FallbackSpec == FbInit /\ [][FbNext]_vars

\* The caller keeps the record returned and calls create_fallback_content
\* once more with the same platform, transcript and original validation, in
\* the same process or in a restarted one (another worker, another run).
FallbackAgain(restarted) ==
    /\ fb.pc = "done"
    /\ calls = <<>>
    /\ calls' = <<[record |-> content, listing |-> fb.listing, restarted |-> restarted]>>
    /\ fb' = [fb EXCEPT !.pc = "call", !.title = None, !.tags = <<>>, !.listing = <<>>,
                        !.gi = 0, !.tier = 0]
    /\ UNCHANGED <<content, results, returned, suggestions, raised>>

RepeatNext ==
    \/ FbNext
    \/ \E restarted \in BOOLEAN : FallbackAgain(restarted)

RepeatSpec == FbInit /\ [][RepeatNext]_vars

\* _create_minimal_content(platform, transcript) called by itself, for any
\* platform: lines 775-778 are done, the padding loop is next.
MinimalInit ==
    /\ \E call \in FallbackCalls :
          /\ content = call.original
          /\ fb = [pc |-> "minimal", platform |-> call.platform,
                   transcript |-> call.transcript, title |-> None,
                   tags |-> <<Tag("content")>>, listing |-> <<>>, gi |-> 0, tier |-> 0]
    /\ results = <<>>
    /\ returned = <<>>
    /\ suggestions = <<>>
    /\ raised = <<>>
    /\ calls = <<>>

\* The caller validates the record returned, in either mode.
MinimalValidated(strict_mode) ==
    /\ fb.pc = "done"
    /\ ValidateContent(strict_mode)

MinimalNext ==
    \/ FallbackMinimal
    \/ \E strict_mode \in BOOLEAN : MinimalValidated(strict_mode)

MinimalSpec == MinimalInit /\ [][MinimalNext]_vars

-----------------------------------------------------------------------------
(* ContentOrchestrator.generate_content (services/orchestrator.py)         *)
(*                                                                         *)
(* The AI call is an input: it raises, or returns a result whose output is *)
(* not a str, or a text.  A text is held as the dict json_content that     *)
(* lines 148-187 extract from it (by json.loads or by the regular          *)
(* expressions): title, tags and the other fields, each a str or another   *)
(* JSON value.  A dict is a sequence of <<key, value>> pairs.              *)

\* A JSON number where a str is expected: a pseudo-text no string equals.
Number == <<[s |-> "int", n |-> 0]>>

\* dict.get found no such key.
Absent == <<[s |-> "absent", n |-> 0]>>

\* isinstance(value, str)
IsStr(value) == value \notin {None, Number, Absent}

\* bool(value) of a str, None or a non-zero number
TruthyValue(value) == IF IsStr(value) THEN value # Empty ELSE value = Number

\* Values of the tags key: a list of items, one str, or another JSON value.
PyList(items) == [py |-> "list", v |-> items]

PyStr(text) == [py |-> "str", v |-> <<text>>]

PyOther(type) == [py |-> type, v |-> <<>>]

TypeError == [raised |-> "TypeError"]

ValidationError == [raised |-> "ValidationError"]

\* platform.value.title()
TitleCase(platform) ==
    CASE platform = "youtube" -> Word("Youtube")
      [] platform = "instagram" -> Word("Instagram")
      [] platform = "facebook" -> Word("Facebook")
      [] platform = "tiktok" -> Word("Tiktok")
      [] platform = "x_twitter" -> Word("X_Twitter")
      [] platform = "linkedin" -> Word("Linkedin")
      [] platform = "twitch" -> Word("Twitch")

\* f"{platform.value.title()} Post"
PlatformPost(platform) == Cat(TitleCase(platform), Cat(Blank, Word("Post")))

\* The keys of _get_platform_fields(platform) other than title and tags.
_get_platform_fields(platform) ==
    CASE platform = "youtube" -> {"description"}
      [] platform = "instagram" -> {"caption"}
      [] platform = "facebook" -> {"post_body"}
      [] platform = "tiktok" -> {"caption"}
      [] platform = "x_twitter" -> {"post_body"}
      [] platform = "linkedin" -> {"post_body", "headline"}
      [] platform = "twitch" -> {"stream_category"}
      [] OTHER -> {}

\* The characters outside [A-Za-z0-9_] of the texts a tag is written in; the
\* word pieces of these texts are alphanumeric.
IsSeparator(atom) == atom.s \in {"#", " ", ","}

\* re.split(r'[,\s]+', raw_tags) with the blank items dropped
SplitTags(text) ==
    Split([i \in DOMAIN text |-> IF text[i].s = "," THEN [s |-> " ", n |-> text[i].n]
                                                    ELSE text[i]])

RECURSIVE FoundHashtags(_)
\* re.findall(r'#[A-Za-z0-9_]+', tag)
FoundHashtags(tag) ==
    IF Len(tag) < 2 THEN <<>>
    ELSE IF tag[1].s = "#" /\ ~IsSeparator(tag[2])
         THEN <<SubSeq(tag, 1, 2)>> \o FoundHashtags(Tail(Tail(tag)))
    ELSE FoundHashtags(Tail(tag))

RECURSIVE RemainingText(_)
\* tag with every hashtag found replaced by ''
RemainingText(tag) ==
    IF Len(tag) < 2 THEN tag
    ELSE IF tag[1].s = "#" /\ ~IsSeparator(tag[2])
         THEN RemainingText(Tail(Tail(tag)))
    ELSE <<tag[1]>> \o RemainingText(Tail(tag))

RECURSIVE ExtraWords(_, _)
\* Lines 116-121: the remaining words that are not hashtags, each with '#'
\* in front, unless processed_tags holds it already.
ExtraWords(words, processed_tags) ==
    IF words = <<>> THEN processed_tags
    ELSE LET clean_word == Cat(Word("#"), words[1])
         IN  IF ~StartsWithHash(words[1])
                /\ \A i \in DOMAIN processed_tags : processed_tags[i] # clean_word
             THEN ExtraWords(Tail(words), Append(processed_tags, clean_word))
             ELSE ExtraWords(Tail(words), processed_tags)

\* Lines 103-128: one truthy str item of raw_tags.
ProcessedTag(tag, processed_tags) ==
    LET found_hashtags == FoundHashtags(tag)
        clean_tag == IF Strip(tag) # Empty /\ ~StartsWithHash(Strip(tag))
                     THEN Cat(Word("#"), Strip(tag)) ELSE Strip(tag)
    IN  IF found_hashtags # <<>>
        THEN ExtraWords(Split(Normal(RemainingText(tag))), processed_tags \o found_hashtags)
        ELSE IF clean_tag # Empty /\ clean_tag # Word("#")
             THEN Append(processed_tags, clean_tag)
        ELSE processed_tags

RECURSIVE ProcessedTags(_, _)
\* The loop of lines 101-130: a falsy item is skipped, re.findall raises
\* TypeError on a truthy item that is not a str.
ProcessedTags(raw_tags, processed_tags) ==
    IF raw_tags = <<>> THEN [tags |-> processed_tags]
    ELSE IF ~TruthyValue(raw_tags[1]) THEN ProcessedTags(Tail(raw_tags), processed_tags)
    ELSE IF ~IsStr(raw_tags[1]) THEN TypeError
    ELSE ProcessedTags(Tail(raw_tags), ProcessedTag(raw_tags[1], processed_tags))

RECURSIVE WithoutRepeats(_, _)
\* Lines 133-134: duplicates removed, the order kept.
WithoutRepeats(tags, seen) ==
    IF tags = <<>> THEN <<>>
    ELSE IF tags[1] \in seen THEN WithoutRepeats(Tail(tags), seen)
    ELSE <<tags[1]>> \o WithoutRepeats(Tail(tags), seen \cup {tags[1]})

\* _process_tags(raw_tags): the list of tags, or the exception raised
\* (iterating a value that is neither a str nor a list raises TypeError).
_process_tags(raw_tags) ==
    IF raw_tags.py \notin {"str", "list"} THEN TypeError
    ELSE LET items == IF raw_tags.py = "str" THEN SplitTags(raw_tags.v[1]) ELSE raw_tags.v
             processed == ProcessedTags(items, <<>>)
         IN  IF Raised(processed) THEN processed
             ELSE LET processed_tags == WithoutRepeats(processed.tags, {})
                  IN  [tags |-> IF processed_tags # <<>> THEN processed_tags
                                ELSE <<Tag("content")>>]

\* json_content.get(key, default) on a dict held as a sequence of pairs
DictGet(items, key, default) ==
    IF \E i \in DOMAIN items : items[i][1] = key
    THEN items[CHOOSE i \in DOMAIN items : items[i][1] = key][2]
    ELSE default

\* _parse_response(response_text, platform): the dict returned, or the
\* exception raised.  Slicing an output that is not a str raises TypeError
\* (line 143).
_parse_response(output, platform) ==
    IF output.py # "str" THEN TypeError
    ELSE LET json_content == output.json_content
             tags == _process_tags(IF json_content.tags.py = "absent" THEN PyList(<<>>)
                                   ELSE json_content.tags)
         IN  IF Raised(tags) THEN tags
             ELSE [title |-> DictGet(json_content.fields, "title", PlatformPost(platform)),
                   tags |-> tags.tags,
                   fields |-> SelectSeq(json_content.fields,
                                        LAMBDA item : item[1] \in _get_platform_fields(platform))]

\* field_mapping (lines 273-279)
field_mapping == {"description", "caption", "post_body", "headline", "stream_category"}

RECURSIVE WithItems(_, _)
\* content_kwargs[content_field] = parsed_data[field_key] (lines 281-283)
WithItems(kwargs, items) ==
    IF items = <<>> THEN kwargs
    ELSE WithItems(IF items[1][1] \in field_mapping
                   THEN [kwargs EXCEPT ![items[1][1]] = items[1][2]] ELSE kwargs,
                   Tail(items))

\* Lines 265-285: PlatformContent(**content_kwargs), or the ValidationError
\* pydantic raises for a title that is not a str or an Optional[str] field
\* that is neither a str nor None.
GeneratedContent(platform, parsed_data) ==
    LET confidence_score == IF TruthyValue(parsed_data.title) /\ parsed_data.tags # <<>>
                            THEN 85 ELSE 50
        kwargs == WithItems(PlatformContent(platform, parsed_data.title, parsed_data.tags,
                                            confidence_score),
                            parsed_data.fields)
    IN  IF \/ ~IsStr(parsed_data.title)
           \/ \E f \in field_mapping : kwargs[f] \in {Number, Absent}
        THEN ValidationError
        ELSE [content |-> kwargs]

\* `except Exception` (line 304) rethrows nothing: every exception the try
\* block raises here is an Exception.
Caught_value_errors(error) == error = "ValueError"

Caught(error) == error \in {"Exception", "TypeError", "ValidationError", "ValueError"}

\* Lines 307-312: the record the handler returns.
GenerationFallback(platform) ==
    PlatformContent(platform, PlatformPost(platform),
                    <<Tag(platform), Tag("video"), Tag("content")>>, 30)

\* What the mocked agents of the tests and a misbehaving service return.
GeneratedTitles ==
    {Absent, None, Number, Empty, Cat(Word("Python"), Cat(Blank, Word("Basics")))}

GeneratedTagValues ==
    {PyOther("absent"), PyOther("NoneType"), PyOther("int"),
     PyStr(Cat(Tag("python"), Cat(Blank, Cat(Tag("coding"), Cat(Word(","), Cat(Blank, Word("tutorial"))))))),
     PyList(<<>>),
     PyList(<<Tag("python"), Tag("coding"), Tag("python")>>),
     PyList(<<Word("tutorial"), Empty, Word("#"),
              Cat(Tag("python"), Cat(Blank, Cat(Word("extra"), Cat(Blank, Tag("coding")))))>>),
     PyList(<<Tag("python"), Number>>),
     PyList(<<None, Tag("python")>>)}

GeneratedFields ==
    {<<>>} \cup { <<<<f, value>>>> : f \in field_mapping,
                                    value \in {Cat(Word("Python"), Cat(Blank, Word("Basics"))),
                                               Number} }

AgentResults ==
    {[raises |-> "Exception"]} \cup {[output |-> PyOther("NoneType")]}
    \cup { [output |-> [py |-> "str",
                        json_content |-> [tags |-> tags,
                                          fields |-> IF title = Absent THEN fields
                                                     ELSE <<<<"title", title>>>> \o fields]]] :
            title \in GeneratedTitles, tags \in GeneratedTagValues, fields \in GeneratedFields }

GenInit ==
    /\ content = <<>>
    /\ results = <<>>
    /\ returned = <<>>
    /\ fb = FbIdle
    /\ suggestions = <<>>
    /\ raised = <<>>
    /\ calls = <<>>

\* An exception of the try block: handled at line 304 or propagated.
Thrown(call, error) ==
    IF Caught(error)
    THEN calls' = <<[pc |-> "except", platform |-> call.platform, error |-> error]>>
         /\ UNCHANGED raised
    ELSE calls' = <<[pc |-> "raised", platform |-> call.platform, error |-> error]>>
         /\ raised' = <<error>>

\* Lines 210-259: the rules are looked up and the prompt is built.
GenerateStart(platform) ==
    /\ calls = <<>>
    /\ calls' = <<[pc |-> "run", platform |-> platform, error |-> "none"]>>
    /\ UNCHANGED <<content, results, returned, fb, suggestions, raised>>

\* Lines 263-264: await self.agent.run(prompt)
GenerateRun(result) ==
    /\ calls # <<>> /\ calls[1].pc = "run"
    /\ IF "raises" \in DOMAIN result
       THEN Thrown(calls[1], result.raises)
       ELSE calls' = <<[pc |-> "parse", platform |-> calls[1].platform, error |-> "none",
                        output |-> result.output]>>
            /\ UNCHANGED raised
    /\ UNCHANGED <<content, results, returned, fb, suggestions>>

\* Line 267: parsed_data = self._parse_response(content_text, platform)
GenerateParse ==
    /\ calls # <<>> /\ calls[1].pc = "parse"
    /\ LET parsed_data == _parse_response(calls[1].output, calls[1].platform)
       IN  IF Raised(parsed_data)
           THEN Thrown(calls[1], parsed_data.raised)
           ELSE calls' = <<[pc |-> "build", platform |-> calls[1].platform, error |-> "none",
                            parsed_data |-> parsed_data]>>
                /\ UNCHANGED raised
    /\ UNCHANGED <<content, results, returned, fb, suggestions>>

\* Lines 269-302: the record is built, logged and returned.
GenerateBuild ==
    /\ calls # <<>> /\ calls[1].pc = "build"
    /\ LET built == GeneratedContent(calls[1].platform, calls[1].parsed_data)
       IN  IF Raised(built)
           THEN Thrown(calls[1], built.raised) /\ UNCHANGED content
           ELSE /\ calls' = <<[pc |-> "returned", platform |-> calls[1].platform,
                               error |-> "none"]>>
                /\ content' = built.content
                /\ UNCHANGED raised
    /\ UNCHANGED <<results, returned, fb, suggestions>>

\* Lines 304-312: the handler logs the error and returns the fallback record.
GenerateExcept ==
    /\ calls # <<>> /\ calls[1].pc = "except"
    /\ calls' = <<[pc |-> "returned", platform |-> calls[1].platform,
                   error |-> calls[1].error]>>
    /\ content' = GenerationFallback(calls[1].platform)
    /\ UNCHANGED <<results, returned, fb, suggestions, raised>>

GenNext ==
    \/ \E platform \in Platforms : GenerateStart(platform)
    \/ \E result \in AgentResults : GenerateRun(result)
    \/ GenerateParse
    \/ GenerateBuild
    \/ GenerateExcept

GenSpec == GenInit /\ [][GenNext]_vars

\* The interpreter keeps running a loop it is in: an iteration or a loop
\* test that can be taken is taken.
FairFallbackSpec ==
    /\ FbInit /\ [][FbNext]_vars
    /\ WF_vars(FallbackWhile) /\ WF_vars(FallbackFor) /\ WF_vars(FallbackMinimal)

-----------------------------------------------------------------------------
(* Properties of the validator                                             *)

\* The results kept in the current state.
Validated == {results[m] : m \in DOMAIN results}

IssuesOf(r) == {r.issues[i] : i \in DOMAIN r.issues}

ErrorsOf(r) == {issue \in IssuesOf(r) : issue.severity = ERROR}

TagCountMessages == {"Too few tags", "Too many tags"}

\* C3: validate_content reports a tag-count ERROR (field 'tags', 'Too few
\* tags' or 'Too many tags') exactly when the number of tags lies outside
\* tag_min_count..tag_max_count of the record's platform, and inside the
\* range it reports no tag-count issue of any severity.
C3_TagCountErrorIffOutsideRange ==
    \A r \in Validated :
        LET rules == get_platform_rules(r.platform)
            outside == \/ Len(r.content.tags) < rules.tag_min_count
                       \/ Len(r.content.tags) > rules.tag_max_count
        IN  /\ outside <=> (\E issue \in ErrorsOf(r) :
                               issue.field = "tags" /\ issue.message \in TagCountMessages)
            /\ ~outside => ~(\E issue \in IssuesOf(r) : issue.message \in TagCountMessages)

\* C3 witness: a validated record with one tag more than the platform allows.
C3_Witness ==
    \E r \in Validated :
        /\ Len(r.content.tags) = get_platform_rules(r.platform).tag_max_count + 1
        /\ \E issue \in ErrorsOf(r) : issue.message = "Too many tags"

\* The message of the character-limit ERROR of an optional field.
LimitMessage(field) ==
    CASE field = "description" -> "Description exceeds maximum length"
      [] field = "caption" -> "Caption exceeds maximum length"
      [] field = "post_body" -> "Post body exceeds maximum length"
      [] field = "bio" -> "Bio exceeds maximum length"
      [] field = "username" -> "Username exceeds maximum length"
      [] field = "profile_name" -> "Profile name exceeds maximum length"
      [] field = "headline" -> "Headline exceeds maximum length"
      [] field = "about_section" -> "About section exceeds maximum length"
      [] field = "connection_message" -> "Connection message exceeds maximum length"
      [] field = "stream_category" -> "Stream category exceeds maximum length"

\* Whether result r holds the 'exceeds maximum length' ERROR of `field`.
HasLimitError(r, field) ==
    \E issue \in ErrorsOf(r) : issue.field = field /\ issue.message = LimitMessage(field)

\* C4: for every populated optional text field whose platform configures a
\* maximum length, validate_content reports the field's 'exceeds maximum
\* length' ERROR exactly when the field is longer than that maximum.
C4_FieldLimitErrorIffTooLong ==
    \A r \in Validated : \A field \in OptionalFieldSet :
        LET m == ConfiguredMax(get_platform_rules(r.platform), field)
        IN  (TruthyValue(r.content[field]) /\ TruthyInt(m))
                => (HasLimitError(r, field) <=> StrLen(r.content[field]) > m)

RECURSIVE SumTagLengths(_)
SumTagLengths(tags) ==
    IF tags = <<>> THEN 0 ELSE (StrLen(Head(tags)) + 1) + SumTagLengths(Tail(tags))

\* len(main_text) + sum of (len(tag) + 1), main_text being post_body when
\* the record has one and the title otherwise.
TwitterTotal(c) ==
    (IF c.post_body # None /\ c.post_body # Empty THEN StrLen(c.post_body) ELSE StrLen(c.title))
    + SumTagLengths(c.tags)

\* C5: on an X/Twitter record validate_content reports the 'total_content'
\* ERROR exactly when post (or title) plus hashtags exceed 280 characters,
\* and the quick check run with the platform's rules notes the total-content
\* failure on exactly the same records.
C5_TwitterTotalAgrees ==
    /\ \A r \in Validated :
          r.platform = "x_twitter" =>
              ((\E issue \in ErrorsOf(r) : issue.field = "total_content")
                  <=> TwitterTotal(r.content) > 280)
    /\ (returned # <<>> /\ content.platform = "x_twitter" /\ returned[1].rules = "x_twitter")
          => ((\E i \in DOMAIN content.validation_notes :
                  content.validation_notes[i] =
                      "Total content exceeds character limit ("
                          \o ToString(TwitterTotal(content)) \o "/280)")
                 <=> TwitterTotal(content) > 280)

\* C5 witness: an X/Twitter record whose title alone fits but whose total
\* does not, after both checks ran and both reported it.
C5_Witness ==
    /\ content.platform = "x_twitter"
    /\ StrLen(content.title) <= 280
    /\ TwitterTotal(content) > 280
    /\ returned # <<>> /\ returned[1].rules = "x_twitter" /\ ~returned[1].ret
    /\ \E r \in Validated : \E issue \in ErrorsOf(r) : issue.field = "total_content"

\* C6: is_valid is (no ERROR issue) under strict mode and (at most one ERROR
\* issue) under lenient mode; WARNING and INFO issues play no part.
C6_VerdictCountsErrors ==
    \A m \in DOMAIN results :
        LET errors == Cardinality({i \in DOMAIN results[m].issues :
                                      results[m].issues[i].severity = ERROR})
        IN  results[m].is_valid <=> (IF m THEN errors = 0 ELSE errors <= 1)

\* C6 witness: a record with exactly one ERROR and some WARNING, validated in
\* both modes: invalid when strict, valid when lenient.
C6_Witness ==
    /\ DOMAIN results = BOOLEAN
    /\ Cardinality(ErrorsOf(results[TRUE])) = 1
    /\ \E issue \in IssuesOf(results[TRUE]) : issue.severity = WARNING
    /\ ~results[TRUE].is_valid /\ results[FALSE].is_valid

\* C7: a record that is valid under strict validation is valid under lenient
\* validation too.
C7_LenientNeverStricter ==
    (DOMAIN results = BOOLEAN) => (results[TRUE].is_valid => results[FALSE].is_valid)

\* C7 witness: a record validated in both modes and valid under strict mode.
C7_Witness ==
    /\ DOMAIN results = BOOLEAN
    /\ results[TRUE].is_valid
    /\ results[TRUE].issues # <<>>

\* C8: the quality score lies in 0..100 (0..60000 in 600ths).
C8_ScoreBounded ==
    \A r \in Validated : 0 <= r.score /\ r.score <= 100 * 600

\* C8 witness: a validated record whose sub-scores, weighted before any
\* clamping, add up to more than 100.
C8_Witness ==
    \E r \in Validated :
        UnclampedScore(r.content, get_platform_rules(r.platform), r.issues) > 100 * 600

\* The ERROR messages of the character-limit stage and the tag-count stage.
FieldLimitStageMessages ==
    {"Title exceeds maximum length",
     "Total content (post + hashtags) exceeds character limit"}
    \cup {LimitMessage(f) : f \in OptionalFieldSet} \cup TagCountMessages

\* C9: the quick check, run with the rules of the record's platform, returns
\* True exactly when validate_content reports no ERROR from its
\* character-limit stage and its tag-count stage.
C9_QuickCheckAgrees ==
    (returned # <<>> /\ returned[1].rules = content.platform) =>
        \A r \in Validated :
            returned[1].ret <=>
                ~(\E issue \in ErrorsOf(r) : issue.message \in FieldLimitStageMessages)

\* C9 witness: the quick check fails a validated record whose only defect is
\* an over-long optional field.
C9_Witness ==
    /\ returned # <<>> /\ returned[1].rules = content.platform /\ ~returned[1].ret
    /\ \E r \in Validated :
          /\ Cardinality(ErrorsOf(r)) = 1
          /\ \E f \in OptionalFieldSet : HasLimitError(r, f)

-----------------------------------------------------------------------------
(* Properties of create_fallback_content                                   *)

\* C1: every call of create_fallback_content terminates: the padding loop
\* of the first tier is left for the build of the record, and the padding
\* loop of the second tier for the return of the minimal record.
C1_PaddingLoopsFinish ==
    /\ (fb.pc \in {"while", "for"}) ~> (fb.pc = "built")
    /\ (fb.pc = "minimal") ~> (fb.pc = "done")

\* C2: the record create_fallback_content returns is valid under lenient
\* validation (at most one ERROR issue), whichever tier produced it.
C2_ReturnedRecordLenientValid ==
    fb.pc = "checked" =>
        /\ results[FALSE].is_valid
        /\ ErrorCount(results[FALSE].issues) <= 1

\* A call returned the minimal record, and another case: see below.
C2_Witness ==
    /\ fb.pc = "checked"
    /\ fb.tier = 2
    /\ results[FALSE].content = content

-----------------------------------------------------------------------------
(* Properties of suggest_improvements                                      *)

\* The issues of a list that carry a suggestion, in the list's order.
Carrying(issues) ==
    SelectSeq(issues, LAMBDA issue : issue.suggestion \notin {NoSuggestion, ""})

\* How many generic suggestions the result calls for.
GenericCount(r) ==
    (IF r.score < 48000 THEN 1 ELSE 0) + (IF r.content.confidence_score < 70 THEN 1 ELSE 0)

\* C11: suggest_improvements returns one line '<Field>: <suggestion>' for
\* every issue with a suggestion, in issue order, and none for an issue
\* without one; then 'consider regenerating' exactly when the score is
\* below 80, then 'low confidence' exactly when confidence_score is below
\* 0.7.
C11_SuggestionsFollowIssues ==
    suggestions # <<>> =>
        LET r == suggestions[1].of
            lines == suggestions[1].lines
            carrying == Carrying(r.issues)
            n == Len(carrying)
            rest == SubSeq(lines, n + 1, Len(lines))
        IN  /\ Len(lines) = n + GenericCount(r)
            /\ \A k \in 1..n :
                  lines[k] = FieldTitle(carrying[k].field) \o ": " \o carrying[k].suggestion
            /\ rest = (IF r.score < 48000
                       THEN <<"Consider regenerating content for higher quality">> ELSE <<>>)
                      \o (IF r.content.confidence_score < 70
                          THEN <<"Low AI confidence - try different tone or keywords">>
                          ELSE <<>>)

\* C11 witness: suggestions for a result some of whose issues carry a
\* suggestion and some do not, with both generic suggestions due.
C11_Witness ==
    /\ suggestions # <<>>
    /\ LET r == suggestions[1].of
       IN  /\ Len(Carrying(r.issues)) >= 2
           /\ Len(Carrying(r.issues)) < Len(r.issues)
           /\ GenericCount(r) = 2
           /\ Len(suggestions[1].lines) = Len(Carrying(r.issues)) + 2

-----------------------------------------------------------------------------
(* Properties of the rule registry                                         *)

\* C12: the registry holds one rule set for each of the seven platforms and
\* no other; the rule set looked up for platform p names p as its platform,
\* has a positive title_max_length and tag_max_count > tag_min_count >= 0.
C12_RegistryWellFormed ==
    /\ DOMAIN PLATFORM_RULES = Platforms
    /\ Cardinality(Platforms) = 7
    /\ \A p \in Platforms :
          LET rules == get_platform_rules(p)
          IN  /\ ~Raised(rules)
              /\ rules.platform = p
              /\ rules.title_max_length > 0
              /\ rules.tag_min_count >= 0
              /\ rules.tag_max_count > rules.tag_min_count
    /\ \A r \in Validated : get_platform_rules(r.platform).platform = r.content.platform

\* C12 witness: a Twitch record was validated with the rule set looked up
\* for it (tags 3..8, titles up to 140).
C12_Witness ==
    /\ content.platform = "twitch"
    /\ results # <<>>
    /\ LET rules == get_platform_rules(content.platform)
       IN  rules.tag_min_count = 3 /\ rules.tag_max_count = 8 /\ rules.title_max_length = 140

C14_NeverRaisesOnSupported ==
    /\ [](content.platform \in Platforms =>
             /\ raised = <<>>
             /\ ~Raised(validate_content(content, TRUE)))
    /\ [][(content.platform \in Platforms
             /\ \E strict_mode \in BOOLEAN : ValidateContent(strict_mode))
          => (raised' = <<>> /\ \E m \in DOMAIN results' : results'[m].content = content)]_vars

\* C14 witness: a Twitch record with an empty tag list, a stream_category of
\* blanks and every other optional field missing was validated, and its
\* defects came back as issues.
C14_Witness ==
    /\ content.platform = "twitch"
    /\ content.tags = <<>>
    /\ TruthyValue(content.stream_category)
    /\ StrLen(Strip(content.stream_category)) = 0
    /\ \A f \in OptionalFieldSet \ {"stream_category"} : content[f] = None
    /\ StrLen(content.title) = 0
    /\ raised = <<>>
    /\ results # <<>>
    /\ \A m \in DOMAIN results : Len(results[m].issues) > 0

\* The calls that have returned.
Returned == {i \in Callers : calls.call[i].pc = "done"}

\* C15: concurrent calls of validate_content on one validator and one record
\* write nothing shared: the record (meets_requirements and validation_notes
\* included) stays as it was, and every call returns, whatever the
\* interleaving, the result it returns when it runs alone, referencing the
\* record it was given.  The registry and the weights are constants of the
\* model, as no statement of the method assigns to them.
C15_ConcurrentCallsIndependent ==
    /\ [][content' = content]_vars
    /\ [](\A i \in Returned :
             /\ calls.call[i].result = validate_content(content, calls.call[i].strict_mode)
             /\ calls.call[i].result.content = content)

\* C15 witness: two calls ran interleaved (one started while the other was
\* between its stages) and both returned, one in each mode.
C15_Witness ==
    /\ Returned = Callers
    /\ \E i \in Callers : calls.call[i].overlapped
    /\ calls.call[1].strict_mode # calls.call[2].strict_mode
    /\ Len(calls.call[1].result.issues) > 3

\* C16: a YouTube record with the title "Bad" (under 10 characters), a single
\* tag (under the minimum of 10), confidence 0.3 and no description is
\* scored below 50.
C16_WeakYouTubeRecordScoresBelow50 ==
    \A r \in Validated :
        (/\ r.content.platform = "youtube"
         /\ r.content.title = Word("Bad")
         /\ Len(r.content.tags) = 1
         /\ r.content.confidence_score = 30
         /\ r.content.description = None)
        => r.score < 50 * 600

\* C17: two calls of create_fallback_content with the same platform, the
\* same transcript and the same original validation return records with the
\* same title, the same tags in the same order and the same confidence_score.
C17_FallbackDeterministic ==
    (calls # <<>> /\ fb.pc = "done") =>
        /\ content.title = calls[1].record.title
        /\ content.tags = calls[1].record.tags
        /\ content.confidence_score = calls[1].record.confidence_score

\* The issues of result r in the order character-limit, tag-count,
\* content-quality, optimal-length, platform-specific.
InCodeOrder(r) ==
    LET rules == get_platform_rules(r.content.platform)
    IN  r.issues = _validate_character_limits(r.content, rules)
                   \o _validate_tag_count(r.content, rules)
                   \o _validate_content_quality(r.content, rules)
                   \o _validate_optimal_lengths(r.content, rules)
                   \o _validate_platform_specific(r.content, rules)

\* C18 as stated: the issues of a result are the character-limit issues, then
\* the optimal-length issues, then the tag-count issues, then the
\* content-quality issues, then the platform-specific issues.
C18_StageOrderAsStated ==
    \A r \in Validated :
        LET rules == get_platform_rules(r.content.platform)
        IN  r.issues = _validate_character_limits(r.content, rules)
                       \o _validate_optimal_lengths(r.content, rules)
                       \o _validate_tag_count(r.content, rules)
                       \o _validate_content_quality(r.content, rules)
                       \o _validate_platform_specific(r.content, rules)

\* C18 amended: the issues of a result are the character-limit issues, then
\* the tag-count issues, then the content-quality issues, then the
\* optimal-length issues, then the platform-specific issues, each stage's
\* issues in the order of its checks.
C18_StageOrder ==
    \A r \in Validated : InCodeOrder(r)

\* C18 witness: a validated record with issues from the character-limit, the
\* tag-count, the content-quality, the optimal-length and the
\* platform-specific stage, so that the place of every stage shows.
C18_Witness ==
    \E r \in Validated :
        LET rules == get_platform_rules(r.content.platform)
        IN  /\ Len(_validate_character_limits(r.content, rules)) > 0
            /\ Len(_validate_tag_count(r.content, rules)) > 0
            /\ Len(_validate_content_quality(r.content, rules)) > 0
            /\ Len(_validate_optimal_lengths(r.content, rules)) > 0
            /\ Len(_validate_platform_specific(r.content, rules)) > 0

\* The original validation holds the title's 'exceeds maximum length' ERROR.
FailedOnTitleLength(validation_result) ==
    \E i \in DOMAIN validation_result.issues :
        /\ validation_result.issues[i].field = "title"
        /\ validation_result.issues[i].severity = ERROR
        /\ validation_result.issues[i].message = "Title exceeds maximum length"

\* C19: when the original validation failed on title length and the title
\* hint does not fit title_max_length - 3 characters, the fallback title is
\* the hint cut at a word boundary to at most title_max_length - 3 characters
\* followed by "..."; in every case the fallback title and the title of the
\* returned record are at most title_max_length characters long.
C19_FallbackTitleCutAtWordBoundary ==
    LET rules == get_platform_rules(fb.platform)
        hint == OrElse(fb.transcript.title, VideoContent)
        max_len == rules.title_max_length - 3
    IN  /\ (fb.pc \in {"while", "for", "built", "minimal", "done"}) =>
              /\ (FailedOnTitleLength(results[TRUE]) /\ StrLen(hint) > max_len) =>
                    fb.title = Cat(Strip(TruncateWords(Split(hint), Empty, max_len)),
                                   Run(".", 3))
              /\ StrLen(fb.title) <= rules.title_max_length
        /\ (fb.pc \in {"done", "checked"}) =>
              StrLen(content.title) <= rules.title_max_length

\* Result r holds the title's near-limit WARNING.
NearLimitWarned(r) ==
    \E i \in DOMAIN r.issues :
        /\ r.issues[i].field = "title"
        /\ r.issues[i].severity = WARNING
        /\ r.issues[i].message = "Title is very close to character limit"

\* No field but the title has a near-limit warning in r: the near-limit
\* message is on the title only and the character-limit stage reports
\* nothing but ERRORs for the other fields.
NoOtherNearLimit(r) ==
    LET stage == _validate_character_limits(r.content, get_platform_rules(r.platform))
    IN  /\ \A i \in DOMAIN r.issues :
              r.issues[i].message = "Title is very close to character limit"
                  => r.issues[i].field = "title"
        /\ \A i \in DOMAIN stage : stage[i].field # "title" => stage[i].severity = ERROR

\* C20 as stated: a title of at least 90% of title_max_length and not above
\* it gets the near-limit WARNING, a title above the limit gets the ERROR
\* instead, a title below 90% gets neither, and no other field gets a
\* near-limit warning.
C20_NearLimitFrom90 ==
    \A r \in Validated :
        LET L == get_platform_rules(r.platform).title_max_length
            n == character_count(r.content)
        IN  /\ NearLimitWarned(r) <=> (10 * n >= 9 * L /\ n <= L)
            /\ FailedOnTitleLength(r) <=> n > L
            /\ ~(NearLimitWarned(r) /\ FailedOnTitleLength(r))
            /\ NoOtherNearLimit(r)

\* C20 amended: a title of more than 90% of title_max_length and not above
\* it gets the near-limit WARNING, a title above the limit gets the ERROR
\* instead (never both), a title of 90% or less gets neither, and no other
\* field gets a near-limit warning.
C20_NearLimitAbove90 ==
    \A r \in Validated :
        LET L == get_platform_rules(r.platform).title_max_length
            n == character_count(r.content)
        IN  /\ NearLimitWarned(r) <=> (10 * n > 9 * L /\ n <= L)
            /\ FailedOnTitleLength(r) <=> n > L
            /\ ~(NearLimitWarned(r) /\ FailedOnTitleLength(r))
            /\ NoOtherNearLimit(r)

\* C20 witness: a validated record whose title is exactly 90% of the limit
\* and carries neither the WARNING nor the ERROR.
C20_Witness ==
    \E r \in Validated :
        /\ 10 * character_count(r.content) = 9 * get_platform_rules(r.platform).title_max_length
        /\ ~NearLimitWarned(r)
        /\ ~FailedOnTitleLength(r)

-----------------------------------------------------------------------------
(* Properties of the content-quality stage and of the scorer               *)

\* Result r holds an issue with this field, severity and message.
Reports(r, field, severity, message) ==
    \E i \in DOMAIN r.issues :
        /\ r.issues[i].field = field
        /\ r.issues[i].severity = severity
        /\ r.issues[i].message = message

\* Two tags of the list are equal ignoring case.
EqualIgnoringCase(tags) ==
    \E i, j \in DOMAIN tags : i # j /\ Lower(tags[i]) = Lower(tags[j])

\* The title, duplicate and confidence parts of C21, shared by its two
\* readings.
QualityOtherChecks(r) ==
    /\ Reports(r, "tags", WARNING, "Duplicate hashtags detected")
          <=> EqualIgnoringCase(r.content.tags)
    /\ Reports(r, "title", ERROR, "Title too short to be engaging")
          <=> StrLen(Strip(r.content.title)) < 10
    /\ Reports(r, "confidence", WARNING, "Low AI confidence in generated content")
          <=> r.content.confidence_score < 60

\* C21 as stated: the 'Malformed hashtags' ERROR is reported iff some tag
\* does not start with '#' or has at most one character after the '#'; the
\* duplicate WARNING iff two tags are equal ignoring case, the title ERROR iff
\* the trimmed title has fewer than 10 characters, the confidence WARNING iff
\* confidence_score < 0.6.
C21_QualityChecksAsStated ==
    \A r \in Validated :
        /\ Reports(r, "tags", ERROR, "Malformed hashtags detected")
              <=> \E i \in DOMAIN r.content.tags :
                     \/ ~StartsWithHash(r.content.tags[i])
                     \/ StrLen(r.content.tags[i]) - 1 <= 1
        /\ QualityOtherChecks(r)

\* C21 amended: the 'Malformed hashtags' ERROR is reported iff some tag does
\* not start with '#' or has no character after the '#'; the other three
\* checks as stated.
C21_QualityChecks ==
    \A r \in Validated :
        /\ Reports(r, "tags", ERROR, "Malformed hashtags detected")
              <=> \E i \in DOMAIN r.content.tags :
                     \/ ~StartsWithHash(r.content.tags[i])
                     \/ StrLen(r.content.tags[i]) - 1 <= 0
        /\ QualityOtherChecks(r)

\* C21 witness: a validated record with a tag of one character after the
\* '#', a bare '#', and the malformed-hashtags ERROR.
C21_Witness ==
    \E r \in Validated :
        /\ \E i \in DOMAIN r.content.tags :
              StartsWithHash(r.content.tags[i]) /\ StrLen(r.content.tags[i]) = 2
        /\ \E i \in DOMAIN r.content.tags :
              StartsWithHash(r.content.tags[i]) /\ StrLen(r.content.tags[i]) = 1
        /\ Reports(r, "tags", ERROR, "Malformed hashtags detected")

\* C22: the optimal-length stage and the platform-specific stage report
\* WARNING and INFO issues only: every ERROR of a result comes from the
\* character-limit, tag-count or content-quality stage, and a record those
\* three stages find no ERROR in is valid in either mode.
C22_AdvisoryStagesNeverError ==
    \A r \in Validated :
        LET rules == get_platform_rules(r.platform)
            advisory == _validate_optimal_lengths(r.content, rules)
                        \o _validate_platform_specific(r.content, rules)
            binding == _validate_character_limits(r.content, rules)
                       \o _validate_tag_count(r.content, rules)
                       \o _validate_content_quality(r.content, rules)
        IN  /\ \A i \in DOMAIN advisory : advisory[i].severity \in {WARNING, INFO}
            /\ \A i \in DOMAIN advisory : advisory[i].severity # ERROR
            /\ ErrorCount(r.issues) = ErrorCount(binding)
            /\ ErrorCount(binding) = 0 => r.is_valid

\* C22 witness: both modes validated a record in which the optimal-length
\* stage and the platform-specific stage each found something and which is
\* valid all the same.
C22_Witness ==
    /\ DOMAIN results = BOOLEAN
    /\ \A m \in BOOLEAN :
          LET r == results[m]
              rules == get_platform_rules(r.platform)
          IN  /\ Len(_validate_optimal_lengths(r.content, rules)) > 0
              /\ Len(_validate_platform_specific(r.content, rules)) > 0
              /\ r.is_valid

\* A sub-score (in sixths of a point) brought into 0..100 points.
Within0And100(v) == IF v < 0 THEN 0 ELSE IF v > 600 THEN 600 ELSE v

FoundBy(stage, issue) == \E i \in DOMAIN stage : stage[i] = issue

\* The sub-score C24 names for an issue of record c: by the field, and for a
\* text field by what the issue is about.
StatedDimension(c, rules, issue) ==
    IF issue.field = "tags" THEN "tag_optimization"
    ELSE IF issue.field \in {"tone", "visual_appeal", "timing"} THEN "engagement_potential"
    ELSE IF issue.field \in TextFieldNames
    THEN IF FoundBy(_validate_character_limits(c, rules), issue) THEN "character_limits"
         ELSE IF FoundBy(_validate_optimal_lengths(c, rules), issue) THEN "optimal_lengths"
         ELSE "platform_optimization"
    ELSE "platform_optimization"

\* The points C24 names, in sixths of a point.
StatedPoints(issue) ==
    IF issue.severity = ERROR THEN 30 * 6
    ELSE IF issue.severity = WARNING THEN 15 * 6
    ELSE 8 * 6

\* C24: every issue deducts 30 (ERROR), 15 (WARNING) or 8 (INFO) points from
\* exactly one sub-score: tag issues from tag_optimization, tone,
\* visual_appeal and timing issues from engagement_potential, a text field's
\* length-limit violation from character_limits, a text field's
\* optimal-length or truncation issue from optimal_lengths, and every other
\* issue from platform_optimization.
C24_DeductionRouting ==
    \A r \in Validated :
        LET rules == get_platform_rules(r.platform)
        IN  \A i \in DOMAIN r.issues : \A d \in Dimensions :
                Deducted(<<r.issues[i]>>, d)
                    = IF d = StatedDimension(r.content, rules, r.issues[i])
                      THEN StatedPoints(r.issues[i]) ELSE 0

\* The relevant fields C25 names for a platform.
StatedRelevantFields(p) ==
    {"title", "tags"}
    \cup (CASE p = "youtube" -> {"description"}
            [] p \in {"instagram", "tiktok"} -> {"caption"}
            [] p \in {"facebook", "x_twitter"} -> {"post_body"}
            [] p = "linkedin" -> {"post_body", "headline"}
            [] p = "twitch" -> {"stream_category"})

\* Record c with field f populated.
WithPopulated(c, f) ==
    IF f = "tags" THEN [c EXCEPT !.tags = <<Tag("video")>>]
    ELSE [c EXCEPT ![f] = Word("text")]

\* C25: the content_completeness sub-score is 50 + 50 * populated / total over
\* the platform's relevant fields (title, tags and the platform's own); no
\* issue is deducted from it; and populating one more relevant field never
\* lowers it.
C25_CompletenessFormula ==
    \A r \in Validated :
        LET c == r.content
            rules == get_platform_rules(r.platform)
            relevant == StatedRelevantFields(r.platform)
            populated == {f \in relevant : Populated(c, f)}
            sub == SubScores(c, rules, r.issues).content_completeness
        IN  /\ Cardinality(relevant) * (sub - 50 * 6) = 50 * 6 * Cardinality(populated)
            /\ \A i \in DOMAIN r.issues : Dimension(r.issues[i]) # "content_completeness"
            /\ sub = SubScores(c, rules, <<>>).content_completeness
            /\ \A f \in relevant \ populated :
                  SubScores(WithPopulated(c, f), rules, r.issues).content_completeness >= sub

\* C25 witness: a validated LinkedIn record with title, tags and post_body
\* populated and no headline (three of four relevant fields), and issues.
C25_Witness ==
    \E r \in Validated :
        /\ r.platform = "linkedin"
        /\ Populated(r.content, "title") /\ Populated(r.content, "tags")
        /\ Populated(r.content, "post_body") /\ ~Populated(r.content, "headline")
        /\ Len(r.issues) > 0
        /\ SubScores(r.content, LinkedInRules, r.issues).content_completeness = 525

-----------------------------------------------------------------------------
(* Properties of the fallback tags and of the minimal record               *)

\* The pieces of the vocabulary that are not made of letters.
NonLetterPieces == {" ", ".", "#", "2024!"} \cup OneCodePoint

\* token.isalpha() and token == token.lower()
LowercaseAlphabetic(token) ==
    /\ token # <<>>
    /\ \A i \in DOMAIN token : token[i].s \notin NonLetterPieces
    /\ Lower(token) = token

\* `tag` is '#' followed by a lowercase alphabetic token of the transcript
\* that is longer than 3 characters.
KeywordTag(tag, transcript) ==
    LET tokens == Split(Lower(transcript.content))
    IN  \E i \in DOMAIN tokens :
            /\ tag = Cat(Word("#"), tokens[i])
            /\ StrLen(tokens[i]) > 3
            /\ LowercaseAlphabetic(tokens[i])

GenericPool == {generic_tags[i] : i \in DOMAIN generic_tags}

\* C26: the list _create_fallback_tags returns has between tag_min_count and
\* tag_max_count tags, no tag twice, every tag '#' plus a lowercase
\* alphabetic transcript token longer than 3 characters or a tag of the
\* generic pool, and generic tags only as far as the minimum asks for them.
C26_FallbackTagsWellFormed ==
    fb.pc = "built" =>
        LET rules == get_platform_rules(fb.platform)
            tags == Take(fb.tags, rules.tag_max_count)
            padding == {i \in DOMAIN tags : ~KeywordTag(tags[i], fb.transcript)}
        IN  /\ rules.tag_min_count <= Len(tags) /\ Len(tags) <= rules.tag_max_count
            /\ \A i, j \in DOMAIN tags : i # j => tags[i] # tags[j]
            /\ \A i \in padding : tags[i] \in GenericPool
            /\ padding # {} => Len(tags) = rules.tag_min_count

\* '#content' followed by '#tag<first>', '#tag<first + 1>', ...: k tags in all.
PaddedTags(k, first) ==
    [i \in 1..k |-> IF i = 1 THEN Tag("content") ELSE Tag("tag" \o ToString(first + i - 2))]

\* What C27 says of the minimal record besides the numbering of the padding.
MinimalRecordValid ==
    LET rules == get_platform_rules(fb.platform)
    IN  /\ content.platform = fb.platform
        /\ content.title = Prefix(VideoContent, rules.title_max_length)
        /\ Len(content.tags) = rules.tag_min_count
        /\ content.confidence_score = 30
        /\ \A m \in DOMAIN results :
              /\ results[m].content = content
              /\ ErrorCount(results[m].issues) = 0
              /\ results[m].is_valid

\* C27 as stated: the minimal record has the placeholder title clamped to
\* title_max_length, the tags '#content', '#tag0', '#tag1', ... up to exactly
\* tag_min_count tags and confidence_score 0.3, and its validation reports no
\* ERROR on any platform.
C27_MinimalRecordAsStated ==
    fb.pc = "done" =>
        /\ MinimalRecordValid
        /\ content.tags = PaddedTags(get_platform_rules(fb.platform).tag_min_count, 0)

\* C27 amended: the padding is numbered from 1: '#content', '#tag1', '#tag2',
\* ...; the rest as stated.
C27_MinimalRecord ==
    fb.pc = "done" =>
        /\ MinimalRecordValid
        /\ content.tags = PaddedTags(get_platform_rules(fb.platform).tag_min_count, 1)

\* C27 witness: the minimal record for Instagram (20 tags) was returned and
\* validated in both modes.
C27_Witness ==
    /\ fb.pc = "done"
    /\ fb.platform = "instagram"
    /\ DOMAIN results = BOOLEAN
    /\ content.tags[20] = Tag("tag19")

-----------------------------------------------------------------------------
(* Properties of generate_content                                          *)

\* C28: generate_content never propagates a failure of the AI call or of
\* the response handling: it returns, for the requested platform, the record
\* with the title '<Platform> Post', the three tags '#<platform>', '#video',
\* '#content' and confidence_score 0.3, which is below 0.5.
C28_GenerationFailureFallsBack ==
    /\ raised = <<>>
    /\ \A i \in DOMAIN calls :
          /\ calls[i].pc # "raised"
          /\ (calls[i].pc = "returned" /\ calls[i].error # "none") =>
                /\ content.platform = calls[i].platform
                /\ Lower(content.title) = <<[s |-> calls[i].platform, n |-> 1],
                                            [s |-> " ", n |-> 1], [s |-> "post", n |-> 1]>>
                /\ content.title # Lower(content.title)
                /\ content.tags = <<Tag(calls[i].platform), Tag("video"), Tag("content")>>
                /\ content.confidence_score = 30
                /\ content.confidence_score < 50

\* C28 witness: a response whose title is not a str made pydantic raise while
\* the X/Twitter record was built, and the call returned.
C28_Witness ==
    /\ calls # <<>>
    /\ calls[1].pc = "returned"
    /\ calls[1].error = "ValidationError"
    /\ calls[1].platform = "x_twitter"
    /\ content.title = Cat(Word("X_Twitter"), Cat(Blank, Word("Post")))

-----------------------------------------------------------------------------
(* Properties relating the score, the verdict and the quick check          *)

\* C29: the quality score is never below 10 (6000 in 600ths): the
\* content_completeness sub-score is at least 50 whatever the issues are, and
\* it carries the weight 0.20.
C29_ScoreFloor ==
    \A r \in Validated :
        /\ r.score >= 10 * 600
        /\ SubScores(r.content, get_platform_rules(r.platform), r.issues).content_completeness
              >= 50 * 6
        /\ quality_weights.content_completeness = 20

\* C29 witness: a validated record that lost a whole sub-score to its issues
\* (clamped at 0) and scores below 65.
C29_Witness ==
    \E r \in Validated :
        /\ \E d \in Dimensions :
              SubScores(r.content, get_platform_rules(r.platform), r.issues)[d] <= 0
        /\ r.score < 65 * 600

\* A record with a title of two characters and the minimum number of
\* well-formed tags.
ShortTitleRecord ==
    PlatformContent("youtube", Word("Hi"), GoodTags(YouTubeRules.tag_min_count), 80)

\* C30: a record that validate_content accepts in strict mode passes the
\* quick check run with the rules of its platform; the converse fails: a
\* record with a too-short title passes the quick check and is invalid.
C30_ValidatorAtLeastAsStrict ==
    /\ (returned # <<>> /\ returned[1].rules = content.platform /\ TRUE \in DOMAIN results)
          => (results[TRUE].is_valid => returned[1].ret)
    /\ validate_against_platform_rules(ShortTitleRecord, YouTubeRules).ret
    /\ ~validate_content(ShortTitleRecord, TRUE).is_valid

\* C30 witness: a record with the maximum number of tags, valid in strict
\* mode, passed the quick check run with the rules of its platform.
C30_Witness ==
    /\ returned # <<>> /\ returned[1].rules = content.platform /\ returned[1].ret
    /\ TRUE \in DOMAIN results /\ results[TRUE].is_valid
    /\ tag_count(content) = get_platform_rules(content.platform).tag_max_count

====
